---- MODULE Spec2Model ----
(***************************************************************************)
(* GlutenPeek: the scan screen (ScanTab), its API client and the backend   *)
(* endpoints it talks to.  Each client is one browser tab running one      *)
(* ScanTab; every "await" of a handler is a step boundary, so handlers of  *)
(* different tabs interleave at their network calls.  A step models a      *)
(* handler from the moment one awaited call returns up to the next await.  *)
(***************************************************************************)
EXTENDS Integers, Sequences, FiniteSets, Bags, TLC

\* ------------------------------------------------------------------ bounds
Clients == {"c1", "c2"}
Barcodes == {"0001", "0002"}
MaxOps == 2
MaxDay == 1

\* ------------------------------------------------------- program constants
StaleDays == 7
MinImages == 4
MaxImages == 8

Labels == {"gluten-free", "contains-gluten", "unknown"}

\* --------------------------------------------------------------- utilities
Min(a, b) == IF a < b THEN a ELSE b

RECURSIVE FirstNonEmpty(_, _)
\* JavaScript  a || b || c || dflt  over strings: the first truthy operand.
FirstNonEmpty(s, dflt) ==
  IF s = <<>> THEN dflt
  ELSE IF Head(s) # "" THEN Head(s)
  ELSE FirstNonEmpty(Tail(s), dflt)

\* How many elements of s are in S.
Count(s, S) == Cardinality({i \in 1..Len(s) : s[i] \in S})

Has(s, e) == \E i \in 1..Len(s) : s[i] = e

\* Position of the first occurrence of an element of S in s, 0 if none.
FirstIdx(s, S) ==
  LET hits == {i \in 1..Len(s) : s[i] \in S}
  IN IF hits = {} THEN 0 ELSE CHOOSE i \in hits : \A j \in hits : i <= j

\* Position of the last occurrence of an element of S in s, 0 if none.
LastIdx(s, S) ==
  LET hits == {i \in 1..Len(s) : s[i] \in S}
  IN IF hits = {} THEN 0 ELSE CHOOSE i \in hits : \A j \in hits : j <= i

\* ------------------------------------------------------ the API client layer
\* What fetch() can do with a request: the promise rejects and the server
\* has not executed the request ("network"); the server handles it and
\* answers ("delivered"); the server answers 5xx without executing it
\* ("http5xx"); the server handles it but its 2xx reply is not JSON
\* ("badjson").  The backend of this repository always answers in JSON; the
\* external catalog may not.
BackendOutcomes == {"delivered", "network", "http5xx"}
NetOutcomes == BackendOutcomes \cup {"badjson"}

\* Does the server execute the handler under this outcome.
Handled(net) == net \in {"delivered", "badjson"}

\* A variant of apiFetch that reports a request that got no usable answer
\* with status 404 instead of 0.
apiFetchDefault404(net, httpStatus) ==
  IF net = "network"
    THEN [hasError |-> TRUE, hasData |-> FALSE, status |-> 404]
  ELSE IF net = "http5xx"
    THEN [hasError |-> TRUE, hasData |-> FALSE, status |-> 500]
  ELSE IF ~(httpStatus >= 200 /\ httpStatus <= 299)
    THEN [hasError |-> TRUE, hasData |-> FALSE, status |-> httpStatus]
  ELSE IF net = "badjson"
    THEN [hasError |-> TRUE, hasData |-> FALSE, status |-> 404]
  ELSE [hasError |-> FALSE, hasData |-> TRUE, status |-> httpStatus]

\* apiFetch: the ApiResponse the caller sees, given what fetch() did and the
\* HTTP status the handler answered with.  hasError/hasData say which of the
\* two optional fields is set.
apiFetch(net, httpStatus) ==
  IF net = "network"
    THEN [hasError |-> TRUE, hasData |-> FALSE, status |-> 0]
  ELSE IF net = "http5xx"
    THEN [hasError |-> TRUE, hasData |-> FALSE, status |-> 500]
  ELSE IF ~(httpStatus >= 200 /\ httpStatus <= 299)
    THEN [hasError |-> TRUE, hasData |-> FALSE, status |-> httpStatus]
  ELSE IF net = "badjson"
    THEN [hasError |-> TRUE, hasData |-> FALSE, status |-> 0]
  ELSE [hasError |-> FALSE, hasData |-> TRUE, status |-> httpStatus]

\* ------------------------------------------------------ the external catalog
OffFields == <<"product_name", "product_name_en", "name",
               "ingredients_text_with_allergens", "ingredients_text",
               "ingredients_text_en", "ingredients_text_debug",
               "image_front_url", "image_url", "image_small_url">>

EmptyOff == [f \in {OffFields[i] : i \in 1..Len(OffFields)} |-> ""]

\* Open Food Facts: which barcodes it knows, and the raw product it returns.
OffHas(b) == b = "0001"

OffProduct(b) ==
  IF b = "0001"
    THEN [EmptyOff EXCEPT !["product_name"] = "Granola Bar",
                          !["product_name_en"] = "Granola Bar (en)",
                          !["ingredients_text"] = "oats, honey, wheat flour",
                          !["ingredients_text_en"] = "oats, honey, flour",
                          !["image_url"] = "img/0001",
                          !["image_small_url"] = "img/0001/small"]
  ELSE EmptyOff

\* The replies openFoodFactsApi.getProduct can see for a barcode: an HTTP
\* status and whether the body carries a product.
OffReplies(b) ==
  IF OffHas(b)
    THEN { [http |-> 200, body |-> "object", hasProduct |-> TRUE, bodyStatus |-> 1] }
    ELSE { [http |-> 404, body |-> "object", hasProduct |-> FALSE, bodyStatus |-> 0],
           [http |-> 200, body |-> "object", hasProduct |-> FALSE, bodyStatus |-> 0],
           [http |-> 200, body |-> "object", hasProduct |-> FALSE, bodyStatus |-> 1],
           [http |-> 200, body |-> "null", hasProduct |-> FALSE, bodyStatus |-> 0] }


\* A variant of the payload that prefers ingredients_text to
\* ingredients_text_with_allergens and image_url to image_front_url.
OffPayloadOtherOrder(b, product) ==
  [barcode |-> b,
   name |-> FirstNonEmpty(<<product["product_name"], product["product_name_en"],
                            product["name"]>>, "Unknown Product"),
   ingredients |-> FirstNonEmpty(<<product["ingredients_text"],
                                   product["ingredients_text_with_allergens"],
                                   product["ingredients_text_en"],
                                   product["ingredients_text_debug"]>>, ""),
   pictureUrl |-> FirstNonEmpty(<<product["image_url"], product["image_front_url"],
                                  product["image_small_url"]>>, "")]

\* The productPayload built from an Open Food Facts product.
OffPayload(b, product) ==
  [barcode |-> b,
   name |-> FirstNonEmpty(<<product["product_name"], product["product_name_en"],
                            product["name"]>>, "Unknown Product"),
   ingredients |-> FirstNonEmpty(<<product["ingredients_text_with_allergens"],
                                   product["ingredients_text"],
                                   product["ingredients_text_en"],
                                   product["ingredients_text_debug"]>>, ""),
   pictureUrl |-> FirstNonEmpty(<<product["image_front_url"], product["image_url"],
                                  product["image_small_url"]>>, "")]

\* A variant of the classification without the check of the body for a
\* product: every answered lookup goes on to the create.
OffClassifyNoBodyCheck(net, reply, authToken) ==
  LET r == apiFetch(net, reply.http) IN
  IF r.hasError
    THEN (IF r.status = 404 THEN "OFF_NOT_FOUND" ELSE "OFF_API_ERROR")
  ELSE IF reply.body = "null" THEN "ERROR"
  ELSE IF ~authToken THEN "AUTH_ERROR"
  ELSE "FOUND"

\* A variant of the classification that takes every failed lookup for "no
\* entry".
OffClassifyConflated(net, reply, authToken) ==
  LET r == apiFetch(net, reply.http) IN
  IF r.hasError THEN "OFF_NOT_FOUND"
  ELSE IF reply.body = "null" THEN "OFF_NOT_FOUND"
  ELSE IF reply.bodyStatus = 0 \/ ~reply.hasProduct THEN "OFF_NOT_FOUND"
  ELSE IF ~authToken THEN "AUTH_ERROR"
  ELSE "FOUND"


\* A variant of the classification that does not look at the token.
OffClassifyNoAuthCheck(net, reply, authToken) ==
  LET r == apiFetch(net, reply.http) IN
  IF r.hasError
    THEN (IF r.status = 404 THEN "OFF_NOT_FOUND" ELSE "OFF_API_ERROR")
  ELSE IF reply.body = "null" THEN "ERROR"
  ELSE IF reply.bodyStatus = 0 \/ ~reply.hasProduct THEN "OFF_NOT_FOUND"
  ELSE "FOUND"

\* How fetchProductFromOpenFoodFacts classifies the lookup, before any create:
\* "OFF_NOT_FOUND", "OFF_API_ERROR", "ERROR" (the catch), "AUTH_ERROR" or
\* "FOUND".
OffClassify(net, reply, authToken) ==
  LET r == apiFetch(net, reply.http) IN
  IF r.hasError
    THEN (IF r.status = 404 THEN "OFF_NOT_FOUND" ELSE "OFF_API_ERROR")
  ELSE IF reply.body = "null" THEN "ERROR"
  ELSE IF reply.bodyStatus = 0 \/ ~reply.hasProduct THEN "OFF_NOT_FOUND"
  ELSE IF ~authToken THEN "AUTH_ERROR"
  ELSE "FOUND"

\* ------------------------------------------------------------- the backend
\* The stored Product.  createdAt is the timestamp the scan screen reads to
\* decide staleness (the specification's status.lastEvaluatedAt).
\* ingredientsForm records whether the backend hands ingredients back as the
\* text it was sent ("string") or as a list ("array").
NoProduct ==
  [barcode |-> "", name |-> "", ingredients |-> "", ingredientsForm |-> "string",
   pictureUrl |-> "", status |-> [status |-> "", explanation |-> ""], createdAt |-> 0]


\* A variant of the new record that starts out labelled.
NewProductLabelled(payload, form, t) ==
  [barcode |-> payload.barcode, name |-> payload.name,
   ingredients |-> payload.ingredients, ingredientsForm |-> form,
   pictureUrl |-> payload.pictureUrl,
   status |-> [status |-> "gluten-free", explanation |-> ""], createdAt |-> t]

NewProduct(payload, form, t) ==
  [barcode |-> payload.barcode, name |-> payload.name,
   ingredients |-> payload.ingredients, ingredientsForm |-> form,
   pictureUrl |-> payload.pictureUrl,
   status |-> [status |-> "unknown", explanation |-> ""], createdAt |-> t]

InCatalog(prods, b) == \E i \in 1..Len(prods) : prods[i].barcode = b

Lookup(prods, b) ==
  IF InCatalog(prods, b) THEN prods[FirstIdx([i \in 1..Len(prods) |-> prods[i].barcode], {b})]
  ELSE NoProduct

\* A variant of the create without the uniqueness check.
CreateStatusNoUniqueness(prods, payload) == 201

\* POST /api/products: create, rejected with 409 when the barcode exists.
CreateStatus(prods, payload) == IF InCatalog(prods, payload.barcode) THEN 409 ELSE 201


\* A variant of the create that writes the candidate over the record that is
\* already there.
CreateProductsOverwrites(prods, payload, form, t) ==
  IF CreateStatus(prods, payload) = 201 THEN Append(prods, NewProduct(payload, form, t))
  ELSE [i \in 1..Len(prods) |->
          IF prods[i].barcode = payload.barcode THEN NewProduct(payload, form, t)
          ELSE prods[i]]

CreateProducts(prods, payload, form, t) ==
  IF CreateStatus(prods, payload) = 201 THEN Append(prods, NewProduct(payload, form, t))
  ELSE prods

\* A variant of the scan handler that does not look the product up.
ScanStatusNoLookup(prods, b) == 201


\* A variant of the scan handler that finds no product.
ScanStatusNeverFinds(prods, b) == 404

\* POST /api/scans: 404 when no Product has the barcode, else the scan is
\* appended and returned with its product populated.
ScanStatus(prods, b) == IF InCatalog(prods, b) THEN 201 ELSE 404

RecordScans(prods, scs, user, b) ==
  IF ScanStatus(prods, b) = 201
    THEN scs (+) SetToBag({[userId |-> user, productBarcode |-> b]})
  ELSE scs

\* PATCH /api/status/:barcode: full overwrite of the status of the barcode's
\* record(s), the evaluation time refreshed; 404 when there is none.
UpdateStatusCode(prods, b) == IF InCatalog(prods, b) THEN 200 ELSE 404


\* A variant of the status update that leaves the evaluation time alone.
UpdateProductsKeepsDate(prods, b, st, t) ==
  [i \in 1..Len(prods) |->
     IF prods[i].barcode = b THEN [prods[i] EXCEPT !.status = st] ELSE prods[i]]


\* A variant of the status update that writes the label and keeps the
\* explanation that is stored.
UpdateProductsLabelOnly(prods, b, st, t) ==
  [i \in 1..Len(prods) |->
     IF prods[i].barcode = b
       THEN [prods[i] EXCEPT !.status.status = st.status, !.createdAt = t]
     ELSE prods[i]]


\* A variant of the status update that replaces the record by one that holds
\* the barcode and the status only.
UpdateProductsReplacesRecord(prods, b, st, t) ==
  [i \in 1..Len(prods) |->
     IF prods[i].barcode = b
       THEN [NoProduct EXCEPT !.barcode = b, !.status = st, !.createdAt = t,
                              !.ingredientsForm = prods[i].ingredientsForm]
     ELSE prods[i]]

UpdateProducts(prods, b, st, t) ==
  [i \in 1..Len(prods) |->
     IF prods[i].barcode = b
       THEN [prods[i] EXCEPT !.status = st, !.createdAt = t]
     ELSE prods[i]]

\* ---------------------------------------------------------- the classifier
\* What Gemini can answer to checkGlutenStatus: a JSON object (its
\* glutenFreeStatus possibly missing, written ""), free text (what the
\* regular expressions of extractGlutenInfoFromText find in it), or nothing.
GeminiReplies ==
  { [form |-> "json", glutenFreeStatus |-> l,
     explanation |-> IF l = "" THEN "" ELSE "because",
     saysFree |-> FALSE, saysNotFree |-> FALSE, saysContains |-> FALSE]
      : l \in {"gluten-free", "contains-gluten", ""} }
  \cup
  { [form |-> "text", glutenFreeStatus |-> "", explanation |-> "",
     saysFree |-> f, saysNotFree |-> FALSE, saysContains |-> c]
      : f \in BOOLEAN, c \in BOOLEAN }

extractGlutenInfoFromText(reply) ==
  [glutenFreeStatus |->
     IF reply.saysFree /\ ~reply.saysNotFree THEN "gluten-free"
     ELSE IF reply.saysContains THEN "contains-gluten"
     ELSE "unknown",
   explanation |-> FirstNonEmpty(<<reply.explanation>>, "Unable to determine from AI response")]

\* The data geminiApi.checkGlutenStatus returns for a reply that arrived.
checkGlutenStatus(reply) ==
  LET glutenInfo == IF reply.form = "json"
                      THEN [glutenFreeStatus |-> reply.glutenFreeStatus,
                            explanation |-> reply.explanation]
                    ELSE extractGlutenInfoFromText(reply)
  IN [success |-> TRUE,
      glutenFreeStatus |-> FirstNonEmpty(<<glutenInfo.glutenFreeStatus>>, "unknown"),
      explanation |-> FirstNonEmpty(<<glutenInfo.explanation>>, "Unable to determine")]

NoAi == [status |-> "", explanation |-> ""]

NoAiProduct == [name |-> "", ingredients |-> ""]

NoScanData == [productBarcode |-> ""]

\* -------------------------------------------------------------- the state
VARIABLES
  now,                      \* the current day
  ops,                      \* scans the users have started so far
  products,                 \* backend: the Product collection
  scans,                    \* backend: the Scan collection (a bag of scans)
  token,                    \* per tab: useAuth().token is set
  pc,                       \* per tab: the await its handler is suspended at
  scanData,                 \* per tab: the variables of the running recordScan mutation (its date left out)
  isScanning,               \* per tab: useState isScanning
  showUploadModal,          \* per tab: useState showUploadModal
  uploadedImages,           \* per tab: useState uploadedImages (its length)
  currentBarcodeForUpload,  \* per tab: useState currentBarcodeForUpload ("" is null)
  snap,                     \* per tab: data.product of the scan response
  ai,                       \* per tab: statusUpdatePayload of the running check
  aiProduct,                \* per tab: geminiProduct of the running submission
  ingredientsForm,          \* backend: how it hands a product's ingredients back
  trace,                    \* per tab: the calls of the running operation, in order
  start,                    \* per tab: where in trace the resolution begins (0: nowhere)
  outcome,                  \* per tab: how the last resolution ended
  offProduct,               \* normalisation: the raw product of an Open Food Facts answer
  productPayload,           \* normalisation: the productPayload built from it
  fetched,                  \* apiFetch: what fetch() did with the request
  apiResponse,              \* apiFetch: the ApiResponse it returned
  s3Env,                    \* s3upload: which of the VITE_AWS_S3_* settings are set
  s3Call,                   \* uploadFileToS3: the file, and what S3 does with a PutObject
  s3Response,               \* uploadFileToS3: the S3UploadResponse it returned
  uploadableImages,         \* ImageUpload: useState uploadedImages
  successfulS3Urls,         \* ImageUpload: what onImagesChange was last called with
  filesSelected,            \* ImageUpload: how many files were picked so far
  authState,                \* AuthProvider: useState user and token ("" is null)
  localStorage,             \* AuthProvider: the items 'authToken' and 'user' ("" is absent)
  isInitialLoading,         \* AuthProvider: useState isInitialLoading
  authPending,              \* AuthProvider: is a login, a register awaiting its answer
  lastAttempt               \* AuthProvider: how the attempt that returned last ended

vars == <<now, ops, products, scans, ingredientsForm, token, pc, scanData, isScanning, showUploadModal,
          uploadedImages, currentBarcodeForUpload, snap, ai, aiProduct, trace, start, outcome,
          offProduct, productPayload, fetched, apiResponse, s3Env, s3Call, s3Response,
          uploadableImages, successfulS3Urls, filesSelected,
          authState, localStorage, isInitialLoading, authPending, lastAttempt>>

server == <<products, scans, ingredientsForm>>
modal == <<showUploadModal, uploadedImages, currentBarcodeForUpload>>
check == <<snap, ai>>
apiCall == <<fetched, apiResponse>>
s3Upload == <<s3Env, s3Call, s3Response>>
imageUpload == <<uploadableImages, successfulS3Urls, filesSelected>>
auth == <<authState, localStorage, isInitialLoading, authPending, lastAttempt>>
others == <<apiCall, s3Upload, imageUpload, auth>>
external == <<offProduct, productPayload, others>>

\* No request was made, nothing was returned.
NoFetch == [net |-> "", http |-> 0]
NoApiResponse == [hasError |-> FALSE, hasData |-> FALSE, status |-> 0]

\* ------------------------------------------------------------ the S3 upload
\* The four settings validateS3Config requires, in the order it tests them.
S3ConfigKeys == <<"VITE_AWS_S3_BUCKET_NAME", "VITE_AWS_S3_REGION",
                  "VITE_AWS_S3_ACCESS_KEY_ID", "VITE_AWS_S3_SECRET_ACCESS_KEY">>

S3ConfigErrors == <<"AWS S3 bucket name is not configured",
                    "AWS S3 region is not configured",
                    "AWS S3 access key ID is not configured",
                    "AWS S3 secret access key is not configured">>

\* An environment says of each setting whether it is set.
S3Envs == [{S3ConfigKeys[i] : i \in 1..4} -> BOOLEAN]
CompleteS3Env == [k \in {S3ConfigKeys[i] : i \in 1..4} |-> TRUE]

\* validateS3Config: the message of the first setting that is missing, "" (null)
\* when all are set.
validateS3Config(env) ==
  IF ~env[S3ConfigKeys[1]] THEN S3ConfigErrors[1]
  ELSE IF ~env[S3ConfigKeys[2]] THEN S3ConfigErrors[2]
  ELSE IF ~env[S3ConfigKeys[3]] THEN S3ConfigErrors[3]
  ELSE IF ~env[S3ConfigKeys[4]] THEN S3ConfigErrors[4]
  ELSE ""

\* validateFile: MAX_FILE_SIZE_MB * 1024 * 1024 bytes.
MaxFileSize == 5 * 1024 * 1024

validImageTypes == {"image/jpeg", "image/png", "image/gif", "image/webp"}

\* A variant of validateFile that tests the type only.
validateFileTypeOnly(file) ==
  IF file.type \notin validImageTypes
    THEN "Invalid file type. Only JPG, PNG, GIF, WEBP are allowed."
  ELSE ""

\* validateFile: the message of the failed test, "" (null) for a valid file.
validateFile(file) ==
  IF file.type \notin validImageTypes
    THEN "Invalid file type. Only JPG, PNG, GIF, WEBP are allowed."
  ELSE IF file.size > MaxFileSize
    THEN "File is too large. Maximum size is 5MB."
  ELSE ""

\* The files a user can pick.
FileTypes == validImageTypes \cup {"application/pdf", "image/svg+xml"}
FileSizes == {1024, MaxFileSize, MaxFileSize + 1}
Files == [type : FileTypes, size : FileSizes]
NoFile == [type |-> "", size |-> 0]

\* What s3Client.send(new PutObjectCommand(params)) does: it resolves, or
\* rejects with an error that carries $metadata.httpStatusCode, the code
\* 'NetworkError', or neither.
PutOutcomes == {"ok", "http403", "http404", "http503", "NetworkError", "error"}

\* The catch block of uploadFileToS3: the message and the status of a
\* rejected PutObject.
PutErrorMessage(put) ==
  IF put = "NetworkError"
    THEN "Network error while uploading to S3. Check your internet connection."
  ELSE IF put = "http403"
    THEN "Access denied uploading to S3. Check credentials and permissions."
  ELSE IF put = "http404"
    THEN "S3 bucket not found. Check your bucket name and region."
  ELSE "Failed to upload file to S3"

PutErrorStatus(put) ==
  IF put = "NetworkError" THEN 0
  ELSE IF put = "http403" THEN 403
  ELSE IF put = "http404" THEN 404
  ELSE IF put = "http503" THEN 503
  ELSE 500

\* Nothing was returned.
NoS3Response == [putObject |-> FALSE, error |-> "", fileUrl |-> "", status |-> -1]

\* uploadFileToS3: the S3UploadResponse (error and data.fileUrl, "" when
\* absent), and whether a PutObject was sent.
uploadFileToS3(env, file, put) ==
  IF validateS3Config(env) # ""
    THEN [putObject |-> FALSE, error |-> validateS3Config(env), fileUrl |-> "",
          status |-> 0]
  ELSE IF validateFile(file) # ""
    THEN [putObject |-> FALSE, error |-> validateFile(file), fileUrl |-> "",
          status |-> 400]
  ELSE IF put = "ok"
    THEN [putObject |-> TRUE, error |-> "", fileUrl |-> "https://bucket/uploads/key",
          status |-> 200]
  ELSE [putObject |-> TRUE, error |-> PutErrorMessage(put), fileUrl |-> "",
        status |-> PutErrorStatus(put)]

NoS3Call == [file |-> NoFile, put |-> ""]

\* The AuthProvider of a user who is signed in, nothing in flight.
NoCredentials == [user |-> "", token |-> ""]
NothingStored == [authToken |-> "", user |-> ""]
NothingPending == [login |-> FALSE, register |-> FALSE]
NoAttempt == [kind |-> "", failed |-> FALSE]

AuthAtRest ==
  /\ authState = [user |-> "u1", token |-> "t1"]
  /\ localStorage = [authToken |-> "t1", user |-> "u1"]
  /\ isInitialLoading = FALSE
  /\ authPending = NothingPending
  /\ lastAttempt = NoAttempt

\* The ImageUpload component as mounted, with no images.
ImageUploadAtRest ==
  /\ uploadableImages = <<>>
  /\ successfulS3Urls = <<>>
  /\ filesSelected = 0

\* The parts of the application outside the scan screen, untouched.
OthersAtRest ==
  /\ fetched = NoFetch
  /\ apiResponse = NoApiResponse
  /\ s3Env = CompleteS3Env
  /\ s3Call = NoS3Call
  /\ s3Response = NoS3Response
  /\ ImageUploadAtRest
  /\ AuthAtRest

\* A Product the catalog can hold before the first step: scanned and
\* classified some days ago.
InitialProducts(form) ==
  { [NewProduct(OffPayload("0001", OffProduct("0001")), form, t)
       EXCEPT !.status = [status |-> "gluten-free", explanation |-> "oats only"]]
      : t \in {1 - StaleDays} }

\* The tabs are alike, so a tab without a token is always the second one.
InitialTokens == { [c \in Clients |-> TRUE], [c \in Clients |-> c = "c1"] }

Init ==
  /\ OthersAtRest
  /\ offProduct = OffProduct("0001")
  /\ productPayload = OffPayload("0001", offProduct)
  /\ now = 0
  /\ ops = 0
  /\ ingredientsForm \in {"string", "array"}
  /\ products \in {<<>>} \cup { <<p>> : p \in InitialProducts(ingredientsForm) }
  /\ scans = EmptyBag
  /\ token \in InitialTokens
  /\ pc = [c \in Clients |-> "idle"]
  /\ scanData = [c \in Clients |-> NoScanData]
  /\ isScanning = [c \in Clients |-> FALSE]
  /\ showUploadModal = [c \in Clients |-> FALSE]
  /\ uploadedImages = [c \in Clients |-> 0]
  /\ currentBarcodeForUpload = [c \in Clients |-> ""]
  /\ snap = [c \in Clients |-> NoProduct]
  /\ ai = [c \in Clients |-> NoAi]
  /\ aiProduct = [c \in Clients |-> NoAiProduct]
  /\ trace = [c \in Clients |-> <<>>]
  /\ start = [c \in Clients |-> 0]
  /\ outcome = [c \in Clients |-> "none"]

\* ------------------------------------------------- the resolution handlers
\* A handler's calls are appended to the tab's trace.
Emit(c, evs) ==
  /\ trace' = [trace EXCEPT ![c] = @ \o evs]
  /\ UNCHANGED start

\* A call of processBarcode that begins a resolution leaves a mark that says
\* whether the catalog held the barcode, followed by the barcode; before come
\* the calls the handler made first.
ResolveMarks == {"resolve:local", "resolve:absent"}

EmitResolve(c, before, mark, b) ==
  /\ trace' = [trace EXCEPT ![c] = @ \o before \o <<mark, b>>]
  /\ start' = [start EXCEPT ![c] = Len(trace[c]) + Len(before) + 1]

\* A new operation begins a new trace.
NewTrace(c, evs) ==
  /\ trace' = [trace EXCEPT ![c] = evs]
  /\ start' = [start EXCEPT ![c] = 0]

\* The part of the trace that belongs to the resolution running or last run.
Cur(c) ==
  IF start[c] = 0 THEN <<>> ELSE SubSeq(trace[c], start[c], Len(trace[c]))

\* processBarcode: show the spinner and start the recordScan mutation.
processBarcode(c, b) ==
  /\ isScanning' = [isScanning EXCEPT ![c] = TRUE]
  /\ scanData' = [scanData EXCEPT ![c] = [productBarcode |-> b]]
  /\ pc' = [pc EXCEPT ![c] = "recording"]

\* The handler of the running operation returns and its mutation (if any) is
\* settled; the tab is at rest.
Rest(c, scanning) ==
  /\ isScanning' = [isScanning EXCEPT ![c] = scanning]
  /\ pc' = [pc EXCEPT ![c] = "idle"]
  /\ scanData' = [scanData EXCEPT ![c] = NoScanData]

\* handleFileUpload up to its await of the decoder.
handleFileUpload(c) ==
  /\ pc[c] = "idle" /\ ~isScanning[c] /\ ~showUploadModal[c]
  /\ ops < MaxOps
  /\ ops' = ops + 1
  /\ isScanning' = [isScanning EXCEPT ![c] = TRUE]
  /\ pc' = [pc EXCEPT ![c] = "decoding"]
  /\ NewTrace(c, <<>>)
  /\ outcome' = [outcome EXCEPT ![c] = "none"]
  /\ UNCHANGED <<external, now, server, token, scanData, modal, check, aiProduct>>


\* A variant of the decoder's return that leaves the spinner on when no
\* barcode was found.
decodeReturnKeepsSpinner(c) ==
  /\ pc[c] = "decoding"
  /\ \/ \E b \in Barcodes :
          /\ processBarcode(c, b)
          /\ EmitResolve(c, <<>>, IF InCatalog(products, b) THEN "resolve:local"
                                   ELSE "resolve:absent", b)
     \/ /\ Rest(c, TRUE)
        /\ Emit(c, <<"decode:err">>)
  /\ UNCHANGED <<external, now, ops, server, token, modal, check, aiProduct, outcome>>

\* handleFileUpload after barcodeApi.scanBarcodeFromImage returned: a barcode
\* goes to processBarcode, no barcode or a decoder error ends the operation.
decodeReturn(c) ==
  /\ pc[c] = "decoding"
  /\ \/ \E b \in Barcodes :
          /\ processBarcode(c, b)
          /\ EmitResolve(c, <<>>, IF InCatalog(products, b) THEN "resolve:local"
                                   ELSE "resolve:absent", b)
     \/ /\ Rest(c, FALSE)
        /\ Emit(c, <<"decode:err">>)
  /\ UNCHANGED <<external, now, ops, server, token, modal, check, aiProduct, outcome>>

\* The event a backend request leaves in the trace: how it was answered.
WriteEvent(kind, net, http, r) ==
  IF ~r.hasError THEN kind \o ":ok"
  ELSE IF Handled(net) /\ http = 404 THEN kind \o ":404"
  ELSE IF Handled(net) /\ http = 409 THEN kind \o ":conflict"
  ELSE kind \o ":err"

\* A variant of the recency test that is a day short.
IsRecentDayShort(product, t) == product.createdAt > t - StaleDays + 1

\* Is the product's status recent (checkAndProcessGlutenStatus: productDate >
\* oneWeekAgo), on day t.
IsRecent(product, t) == product.createdAt > t - StaleDays

\* What the trace notes of the scanned product: whether its status was
\* evaluated less than StaleDays days before day t.
AgeMark(product, t) ==
  IF t - product.createdAt < StaleDays THEN "age:recent" ELSE "age:old"


\* A variant of onSuccess that keeps the spinner while the status check waits
\* for the classifier.
onSuccessAwaitsCheck(c, product, ev) ==
  /\ outcome' = [outcome EXCEPT ![c] =
                   IF Has(Cur(c), "create:ok")
                     THEN "FoundExternal" ELSE "FoundLocal"]
  /\ scanData' = [scanData EXCEPT ![c] = NoScanData]
  /\ UNCHANGED ai
  /\ IF product # NoProduct /\ product.ingredientsForm = "string"
       THEN IF IsRecent(product, now)
              THEN /\ Emit(c, <<ev, AgeMark(product, now), "trigger", "fresh">>)
                   /\ pc' = [pc EXCEPT ![c] = "idle"]
                   /\ isScanning' = [isScanning EXCEPT ![c] = FALSE]
                   /\ UNCHANGED snap
              ELSE /\ Emit(c, <<ev, AgeMark(product, now), "trigger">>)
                   /\ pc' = [pc EXCEPT ![c] = "classifying"]
                   /\ isScanning' = [isScanning EXCEPT ![c] = TRUE]
                   /\ snap' = [snap EXCEPT ![c] = product]
       ELSE /\ Emit(c, <<ev, AgeMark(product, now), "skip">>)
            /\ pc' = [pc EXCEPT ![c] = "idle"]
            /\ isScanning' = [isScanning EXCEPT ![c] = FALSE]
            /\ UNCHANGED snap

\* recordScan.onSuccess, with checkAndProcessGlutenStatus up to its first
\* await: the scan is reported, the spinner cleared, and the status check
\* either is skipped, returns at once (recent), or calls the classifier.
onSuccess(c, product, ev) ==
  /\ outcome' = [outcome EXCEPT ![c] =
                   IF Has(Cur(c), "create:ok")
                     THEN "FoundExternal" ELSE "FoundLocal"]
  /\ isScanning' = [isScanning EXCEPT ![c] = FALSE]
  /\ scanData' = [scanData EXCEPT ![c] = NoScanData]
  /\ UNCHANGED ai
  /\ IF product # NoProduct /\ product.ingredientsForm = "string"
       THEN IF IsRecent(product, now)
              THEN /\ Emit(c, <<ev, AgeMark(product, now), "trigger", "fresh">>)
                   /\ pc' = [pc EXCEPT ![c] = "idle"]
                   /\ UNCHANGED snap
              ELSE /\ Emit(c, <<ev, AgeMark(product, now), "trigger">>)
                   /\ pc' = [pc EXCEPT ![c] = "classifying"]
                   /\ snap' = [snap EXCEPT ![c] = product]
       ELSE /\ Emit(c, <<ev, AgeMark(product, now), "skip">>)
            /\ pc' = [pc EXCEPT ![c] = "idle"]
            /\ UNCHANGED snap

\* recordScan.onError, product not found: keep the spinner and look the
\* barcode up in Open Food Facts.
onErrorNotFound(c, ev) ==
  /\ isScanning' = [isScanning EXCEPT ![c] = TRUE]
  /\ pc' = [pc EXCEPT ![c] = "offLookup"]
  /\ Emit(c, <<ev>>)
  /\ UNCHANGED <<scanData, check, outcome>>

\* A variant of the generic error branch that goes on to the status check of
\* the product scanned.
onErrorGenericThenCheck(c, ev) ==
  /\ isScanning' = [isScanning EXCEPT ![c] = FALSE]
  /\ scanData' = [scanData EXCEPT ![c] = NoScanData]
  /\ outcome' = [outcome EXCEPT ![c] = "Failed"]
  /\ Emit(c, <<ev, "trigger">>)
  /\ pc' = [pc EXCEPT ![c] = "classifying"]
  /\ snap' = [snap EXCEPT ![c] = Lookup(products, scanData[c].productBarcode)]
  /\ UNCHANGED ai

\* A variant of the generic error branch that sends the scan again.
onErrorGenericRetry(c, ev) ==
  /\ processBarcode(c, scanData[c].productBarcode)
  /\ Emit(c, <<ev>>)
  /\ UNCHANGED <<check, outcome>>

\* recordScan.onError, any other error: "Failed to Record Scan".
onErrorGeneric(c, ev) ==
  /\ Rest(c, FALSE)
  /\ outcome' = [outcome EXCEPT ![c] = "Failed"]
  /\ Emit(c, <<ev>>)
  /\ UNCHANGED check

\* A variant of createScanApi that takes every error for "product not found".
IsProductNotFoundAnyError(r) == r.hasError

\* createScanApi: which error responses it throws as isProductNotFound.
IsProductNotFound(r) == r.hasError /\ r.status = 404

\* createScanApi returns and the mutation's onSuccess or onError runs.
recordScan(c) ==
  /\ pc[c] = "recording"
  /\ IF ~token[c]
       THEN /\ onErrorGeneric(c, "scan:noauth")
            /\ UNCHANGED scans
       ELSE \E net \in BackendOutcomes :
              LET b == scanData[c].productBarcode
                  http == ScanStatus(products, b)
                  r == apiFetch(net, http)
                  ev == WriteEvent("scan", net, http, r)
              IN /\ scans' = IF Handled(net)
                               THEN RecordScans(products, scans, c, b)
                               ELSE scans
                 /\ IF ~r.hasError THEN onSuccess(c, Lookup(products, b), ev)
                    ELSE IF IsProductNotFound(r) THEN onErrorNotFound(c, ev)
                    ELSE onErrorGeneric(c, ev)
  /\ UNCHANGED <<external, now, ops, products, ingredientsForm, token, modal, aiProduct>>

\* The event a lookup leaves in the trace: what the external catalog did.
OffEvent(net, reply) ==
  IF net = "network" THEN "off:neterr"
  ELSE IF net = "http5xx" THEN "off:5xx"
  ELSE IF reply.http = 404 THEN "off:404"
  ELSE IF net = "badjson" THEN "off:badjson"
  ELSE IF reply.body = "null" THEN "off:null"
  ELSE IF ~reply.hasProduct \/ reply.bodyStatus = 0 THEN "off:noproduct"
  ELSE "off:hit"

\* recordScan.onError after the Open Food Facts lookup returned, up to the
\* await of productApi.createProduct.
offLookup(c) ==
  /\ pc[c] = "offLookup"
  /\ \E net \in NetOutcomes, reply \in OffReplies(scanData[c].productBarcode) :
       LET cls == OffClassify(net, reply, token[c])
           ev == OffEvent(net, reply)
       IN
       IF cls = "FOUND"
         THEN /\ pc' = [pc EXCEPT ![c] = "creating"]
              /\ Emit(c, <<ev>>)
              /\ UNCHANGED <<isScanning, scanData, modal, outcome>>
       ELSE IF cls = "OFF_NOT_FOUND"
         THEN /\ currentBarcodeForUpload' =
                   [currentBarcodeForUpload EXCEPT ![c] = scanData[c].productBarcode]
              /\ uploadedImages' = [uploadedImages EXCEPT ![c] = 0]
              /\ showUploadModal' = [showUploadModal EXCEPT ![c] = TRUE]
              /\ Rest(c, FALSE)
              /\ outcome' = [outcome EXCEPT ![c] = "NeedsCommunityInput"]
              /\ Emit(c, <<ev>>)
         ELSE /\ Rest(c, FALSE)
              /\ outcome' = [outcome EXCEPT ![c] = "Failed"]
              /\ Emit(c, <<ev>>)
              /\ UNCHANGED modal
  /\ UNCHANGED <<external, now, ops, server, token, check, aiProduct>>

\* fetchProductFromOpenFoodFacts after productApi.createProduct returned, and
\* the rest of onError: a saved product re-runs processBarcode, anything else
\* is a "Product Processing Error".
createProduct(c) ==
  /\ pc[c] = "creating"
  /\ \E net \in BackendOutcomes :
       LET b == scanData[c].productBarcode
           payload == OffPayload(b, OffProduct(b))
           http == CreateStatus(products, payload)
           r == apiFetch(net, http)
           ev == WriteEvent("create", net, http, r)
       IN /\ products' = IF Handled(net)
                           THEN CreateProducts(products, payload, ingredientsForm, now)
                           ELSE products
          /\ Emit(c, <<ev>>)
          /\ IF ~r.hasError
               THEN /\ processBarcode(c, b)
                    /\ UNCHANGED outcome
               ELSE /\ Rest(c, FALSE)
                    /\ outcome' = [outcome EXCEPT ![c] = "Failed"]
  /\ UNCHANGED <<external, now, ops, scans, ingredientsForm, token, modal, check, aiProduct>>

\* ------------------------------------------------------ the staleness check
\* checkAndProcessGlutenStatus returns: its locals are gone.
CheckDone(c) ==
  /\ pc' = [pc EXCEPT ![c] = "idle"]
  /\ snap' = [snap EXCEPT ![c] = NoProduct]
  /\ ai' = [ai EXCEPT ![c] = NoAi]

\* What geminiApi.checkGlutenStatus hands back when the call itself failed.
NoGeminiData == [success |-> FALSE, glutenFreeStatus |-> "", explanation |-> ""]

\* Does a reply that arrived carry no label the client can find: a JSON
\* object without glutenFreeStatus, or text (empty text too) in which none of
\* the patterns of extractGlutenInfoFromText matches.
NoLabelIn(reply) ==
  IF reply.form = "json" THEN reply.glutenFreeStatus = ""
  ELSE ~(reply.saysFree /\ ~reply.saysNotFree) /\ ~reply.saysContains


\* A variant of the verdict that does not look at the error of the call.
CheckVerdictIgnoresError(hasError, data, product) ==
  IF data.glutenFreeStatus # product.status.status THEN "update" ELSE "unchanged"

\* What checkAndProcessGlutenStatus does with geminiResponse: throw into its
\* catch, update the stored status, or leave it.
CheckVerdict(hasError, data, product) ==
  IF hasError THEN "throw"
  ELSE IF ~data.success \/ data.glutenFreeStatus = "" THEN "throw"
  ELSE IF data.glutenFreeStatus # product.status.status THEN "update"
  ELSE "unchanged"

\* The statusUpdatePayload built from the classifier's answer.
StatusUpdatePayload(data) ==
  [status |-> data.glutenFreeStatus,
   explanation |-> FirstNonEmpty(<<data.explanation>>, "")]

\* A variant of the rest of the status check that sends the update without
\* looking at the token.
AfterClassifierNoAuthCheck(c, hasError, data, evs) ==
  LET verdict == CheckVerdict(hasError, data, snap[c]) IN
  IF verdict = "throw"
    THEN /\ Emit(c, evs)
         /\ CheckDone(c)
  ELSE IF verdict = "update"
    THEN /\ Emit(c, evs)
         /\ pc' = [pc EXCEPT ![c] = "updating"]
         /\ ai' = [ai EXCEPT ![c] = StatusUpdatePayload(data)]
         /\ UNCHANGED snap
  ELSE /\ Emit(c, evs \o <<"unchanged">>)
       /\ CheckDone(c)

\* The rest of checkAndProcessGlutenStatus after geminiApi.checkGlutenStatus
\* returned, up to the await of statusApi.updateProductStatus; evs is what the
\* trace notes of the call.
AfterClassifier(c, hasError, data, evs) ==
  LET verdict == CheckVerdict(hasError, data, snap[c]) IN
  IF verdict = "throw"
    THEN /\ Emit(c, evs)
         /\ CheckDone(c)
  ELSE IF verdict = "update"
    THEN IF ~token[c]
           THEN /\ Emit(c, evs \o <<"update:noauth">>)
                /\ CheckDone(c)
           ELSE /\ Emit(c, evs)
                /\ pc' = [pc EXCEPT ![c] = "updating"]
                /\ ai' = [ai EXCEPT ![c] = StatusUpdatePayload(data)]
                /\ UNCHANGED snap
  ELSE /\ Emit(c, evs \o <<"unchanged">>)
       /\ CheckDone(c)

\* checkAndProcessGlutenStatus after geminiApi.checkGlutenStatus returned: the
\* call failed, or a reply arrived.
classify(c) ==
  /\ pc[c] = "classifying"
  /\ \/ AfterClassifier(c, TRUE, NoGeminiData, <<"classify:err">>)
     \/ \E reply \in GeminiReplies :
          AfterClassifier(c, FALSE, checkGlutenStatus(reply),
                          IF NoLabelIn(reply) THEN <<"classify:ok", "reply:nolabel">>
                          ELSE <<"classify:ok">>)
  /\ UNCHANGED <<external, now, ops, server, token, scanData, isScanning, modal,
                 aiProduct, outcome>>


\* A variant of the update's return that shows the toast whatever the answer.
updateStatusAlwaysNotifies(c) ==
  /\ pc[c] = "updating"
  /\ \E net \in BackendOutcomes :
       LET b == snap[c].barcode
           http == UpdateStatusCode(products, b)
           r == apiFetch(net, http)
       IN /\ products' = IF Handled(net) THEN UpdateProducts(products, b, ai[c], now)
                         ELSE products
          /\ Emit(c, <<WriteEvent("update", net, http, r), "notify:changed">>)
  /\ CheckDone(c)
  /\ UNCHANGED <<external, now, ops, scans, ingredientsForm, token, scanData, isScanning,
                 modal, aiProduct, outcome>>

\* checkAndProcessGlutenStatus after statusApi.updateProductStatus returned:
\* an update that was answered is followed by the "AI Gluten Check" toast.
updateStatus(c) ==
  /\ pc[c] = "updating"
  /\ \E net \in BackendOutcomes :
       LET b == snap[c].barcode
           http == UpdateStatusCode(products, b)
           r == apiFetch(net, http)
       IN /\ products' = IF Handled(net) THEN UpdateProducts(products, b, ai[c], now)
                         ELSE products
          /\ Emit(c, IF r.hasError THEN <<WriteEvent("update", net, http, r)>>
                      ELSE <<WriteEvent("update", net, http, r), "notify:changed">>)
  /\ CheckDone(c)
  /\ UNCHANGED <<external, now, ops, scans, ingredientsForm, token, scanData, isScanning,
                 modal, aiProduct, outcome>>

\* ------------------------------------------------- the community sourcing
\* What Gemini's text yields for the two patterns of
\* extractProductInfoFromGeminiResponse ("" when a pattern finds nothing).
ExtractReplies ==
  { [nameMatch |-> "Oat Bar", ingredientsMatch |-> "oats"],
    [nameMatch |-> "", ingredientsMatch |-> ""] }

extractProductInfoFromGeminiResponse(reply) ==
  [name |-> FirstNonEmpty(<<reply.nameMatch>>, "Unknown Product"),
   ingredients |-> FirstNonEmpty(<<reply.ingredientsMatch>>, "")]

\* The productPayload of handleMultipleImageUpload.
AiPayload(b, geminiProduct, firstImageUrl) ==
  [barcode |-> b,
   name |-> FirstNonEmpty(<<geminiProduct.name>>, "Unknown Product (from AI)"),
   ingredients |-> FirstNonEmpty(<<geminiProduct.ingredients>>, ""),
   pictureUrl |-> firstImageUrl]

\* The URL uploadImageToServer returns for the first image of a barcode.
FirstImageUrl(b) == "products/" \o b

\* The clean-up test of handleMultipleImageUpload's finally block, on the
\* showUploadModal and isScanning its closure captured when it was called.
FinallyClears(closureShowUploadModal, closureIsScanning) ==
  ~closureShowUploadModal \/ (closureShowUploadModal /\ ~closureIsScanning)

\* The finally block.  The handler is called from the modal's Submit button,
\* which exists only while showUploadModal is set and isScanning is not.
Finally(c) ==
  IF FinallyClears(TRUE, FALSE)
    THEN /\ uploadedImages' = [uploadedImages EXCEPT ![c] = 0]
         /\ currentBarcodeForUpload' = [currentBarcodeForUpload EXCEPT ![c] = ""]
    ELSE UNCHANGED <<uploadedImages, currentBarcodeForUpload>>

\* The catch block followed by the finally block.
Catch(c, ev) ==
  /\ Rest(c, FALSE)
  /\ Emit(c, <<ev>>)
  /\ Finally(c)
  /\ aiProduct' = [aiProduct EXCEPT ![c] = NoAiProduct]
  /\ UNCHANGED showUploadModal

\* How many files one use of the modal's file input can add.
AddSizes == {3, 6}


\* A variant of the file input that keeps every file added, up to a dozen.
addImagesNoSlice(c) ==
  /\ pc[c] = "idle" /\ showUploadModal[c] /\ ~isScanning[c]
  /\ \E n \in AddSizes :
       /\ uploadedImages[c] + n <= MaxImages + MinImages
       /\ uploadedImages' = [uploadedImages EXCEPT ![c] = @ + n]
  /\ UNCHANGED <<external, now, ops, server, token, pc, scanData, isScanning, showUploadModal,
                 currentBarcodeForUpload, check, aiProduct, trace, start, outcome>>

\* The modal's file input: add files, keep the first eight.
addImages(c) ==
  /\ pc[c] = "idle" /\ showUploadModal[c] /\ ~isScanning[c]
  /\ \E n \in AddSizes :
       /\ Min(uploadedImages[c] + n, MaxImages) # uploadedImages[c]
       /\ uploadedImages' = [uploadedImages EXCEPT ![c] = Min(@ + n, MaxImages)]
  /\ UNCHANGED <<external, now, ops, server, token, pc, scanData, isScanning, showUploadModal,
                 currentBarcodeForUpload, check, aiProduct, trace, start, outcome>>

\* The modal's Cancel button.
cancelUpload(c) ==
  /\ pc[c] = "idle" /\ showUploadModal[c] /\ ~isScanning[c]
  /\ showUploadModal' = [showUploadModal EXCEPT ![c] = FALSE]
  /\ uploadedImages' = [uploadedImages EXCEPT ![c] = 0]
  /\ UNCHANGED <<external, now, ops, server, token, pc, scanData, isScanning,
                 currentBarcodeForUpload, check, aiProduct, trace, start, outcome>>


\* A variant of the validations that lets three images through.
ValidationThreeImages(images, barcode) ==
  IF images < MinImages - 1 THEN "submit:invalid"
  ELSE IF barcode = "" THEN "submit:nobarcode"
  ELSE "ok"

\* The two validations handleMultipleImageUpload begins with.
Validation(images, barcode) ==
  IF images < MinImages THEN "submit:invalid"
  ELSE IF barcode = "" THEN "submit:nobarcode"
  ELSE "ok"

\* The modal's Submit button is disabled: too few images, or the spinner on.
SubmitDisabled(c) == uploadedImages[c] < MinImages \/ isScanning[c]

\* handleMultipleImageUpload, called from the Submit button, up to its first
\* await: the two validations, then the spinner and the call of the extractor.
handleMultipleImageUpload(c) ==
  /\ pc[c] = "idle" /\ showUploadModal[c] /\ ~SubmitDisabled(c)
  /\ outcome' = [outcome EXCEPT ![c] = "none"]
  /\ IF Validation(uploadedImages[c], currentBarcodeForUpload[c]) # "ok"
       THEN /\ NewTrace(c, <<"submit", Validation(uploadedImages[c],
                                                   currentBarcodeForUpload[c])>>)
            /\ UNCHANGED <<pc, isScanning>>
     ELSE /\ NewTrace(c, <<"submit">>)
          /\ isScanning' = [isScanning EXCEPT ![c] = TRUE]
          /\ pc' = [pc EXCEPT ![c] = "extracting"]
  /\ UNCHANGED <<external, now, ops, server, token, scanData, modal, check, aiProduct>>


\* A variant of the extractor's return that calls the extractor a second time
\* after a failure.
extractReturnRetries(c) ==
  /\ pc[c] = "extracting"
  /\ \/ IF Has(trace[c], "extract:err")
          THEN Catch(c, "extract:err")
          ELSE /\ Emit(c, <<"extract:err">>)
               /\ UNCHANGED <<pc, isScanning, scanData, modal, aiProduct>>
     \/ \E reply \in ExtractReplies :
          /\ aiProduct' = [aiProduct EXCEPT ![c] = extractProductInfoFromGeminiResponse(reply)]
          /\ pc' = [pc EXCEPT ![c] = "uploading"]
          /\ Emit(c, <<"extract:ok">>)
          /\ UNCHANGED <<isScanning, scanData, modal>>
  /\ UNCHANGED <<external, now, ops, server, token, check, outcome>>

\* After fileToBase64 and geminiApi.generateProductInfo returned, up to the
\* await of the upload.
extractReturn(c) ==
  /\ pc[c] = "extracting"
  /\ \/ Catch(c, "extract:err")
     \/ \E reply \in ExtractReplies :
          /\ aiProduct' = [aiProduct EXCEPT ![c] = extractProductInfoFromGeminiResponse(reply)]
          /\ pc' = [pc EXCEPT ![c] = "uploading"]
          /\ Emit(c, <<"extract:ok">>)
          /\ UNCHANGED <<isScanning, scanData, modal>>
  /\ UNCHANGED <<external, now, ops, server, token, check, outcome>>


\* A variant of the upload's return that goes on to the create after a failed
\* upload.
uploadReturnIgnoresError(c) ==
  /\ pc[c] = "uploading"
  /\ \/ /\ token[c]
        /\ pc' = [pc EXCEPT ![c] = "savingAI"]
        /\ Emit(c, <<"upload:err">>)
        /\ UNCHANGED <<isScanning, scanData, modal, aiProduct>>
     \/ IF ~token[c]
          THEN /\ Rest(c, FALSE)
               /\ Emit(c, <<"upload:ok", "submit:noauth">>)
               /\ Finally(c)
               /\ aiProduct' = [aiProduct EXCEPT ![c] = NoAiProduct]
               /\ UNCHANGED showUploadModal
          ELSE /\ pc' = [pc EXCEPT ![c] = "savingAI"]
               /\ Emit(c, <<"upload:ok">>)
               /\ UNCHANGED <<isScanning, scanData, modal, aiProduct>>
  /\ UNCHANGED <<external, now, ops, server, token, check, outcome>>

\* After uploadImageToServer returned, up to the await of
\* productApi.createProduct.
uploadReturn(c) ==
  /\ pc[c] = "uploading"
  /\ \/ Catch(c, "upload:err")
     \/ IF ~token[c]
          THEN /\ Rest(c, FALSE)
               /\ Emit(c, <<"upload:ok", "submit:noauth">>)
               /\ Finally(c)
               /\ aiProduct' = [aiProduct EXCEPT ![c] = NoAiProduct]
               /\ UNCHANGED showUploadModal
          ELSE /\ pc' = [pc EXCEPT ![c] = "savingAI"]
               /\ Emit(c, <<"upload:ok">>)
               /\ UNCHANGED <<isScanning, scanData, modal, aiProduct>>
  /\ UNCHANGED <<external, now, ops, server, token, check, outcome>>


\* A variant of the create's return that closes the modal on success and does
\* not scan the barcode again.
saveAiProductNoRescan(c) ==
  /\ pc[c] = "savingAI"
  /\ \E net \in BackendOutcomes :
       LET b == currentBarcodeForUpload[c]
           payload == AiPayload(b, aiProduct[c], FirstImageUrl(b))
           http == CreateStatus(products, payload)
           r == apiFetch(net, http)
           ev == WriteEvent("create", net, http, r)
       IN /\ products' = IF Handled(net)
                           THEN CreateProducts(products, payload, ingredientsForm, now)
                           ELSE products
          /\ IF ~r.hasError
               THEN /\ showUploadModal' = [showUploadModal EXCEPT ![c] = FALSE]
                    /\ Rest(c, FALSE)
                    /\ Emit(c, <<ev>>)
                    /\ Finally(c)
                    /\ aiProduct' = [aiProduct EXCEPT ![c] = NoAiProduct]
               ELSE Catch(c, ev)
  /\ UNCHANGED <<external, now, ops, scans, ingredientsForm, token, check, outcome>>

\* After productApi.createProduct returned: a saved product closes the modal
\* and re-runs processBarcode; then the finally block.
saveAiProduct(c) ==
  /\ pc[c] = "savingAI"
  /\ \E net \in BackendOutcomes :
       LET b == currentBarcodeForUpload[c]
           payload == AiPayload(b, aiProduct[c], FirstImageUrl(b))
           http == CreateStatus(products, payload)
           r == apiFetch(net, http)
           ev == WriteEvent("create", net, http, r)
       IN /\ products' = IF Handled(net)
                           THEN CreateProducts(products, payload, ingredientsForm, now)
                           ELSE products
          /\ IF ~r.hasError
               THEN /\ showUploadModal' = [showUploadModal EXCEPT ![c] = FALSE]
                    /\ processBarcode(c, b)
                    /\ EmitResolve(c, <<ev>>, "resolve:local", b)
                    /\ Finally(c)
                    /\ aiProduct' = [aiProduct EXCEPT ![c] = NoAiProduct]
               ELSE Catch(c, ev)
  /\ UNCHANGED <<external, now, ops, scans, ingredientsForm, token, check, outcome>>

\* ------------------------------------------------------------------- time
\* A day passes.
Tick ==
  /\ now < MaxDay
  /\ now' = now + 1
  /\ UNCHANGED <<external, ops, server, token, pc, scanData, isScanning, modal, check,
                 aiProduct, trace, start, outcome>>

Next ==
  \/ Tick
  \/ \E c \in Clients :
       \/ handleFileUpload(c)
       \/ decodeReturn(c)
       \/ recordScan(c)
       \/ offLookup(c)
       \/ createProduct(c)
       \/ classify(c)
       \/ updateStatus(c)
       \/ addImages(c)
       \/ cancelUpload(c)
       \/ handleMultipleImageUpload(c)
       \/ extractReturn(c)
       \/ uploadReturn(c)
       \/ saveAiProduct(c)

Spec == Init /\ [][Next]_vars



\* AuthContext handleLogout, seen from a tab at rest: its useAuth().token is
\* cleared.
signedOut(c) ==
  /\ token[c]
  /\ pc[c] = "idle"
  /\ token' = [token EXCEPT ![c] = FALSE]
  /\ UNCHANGED <<external, now, ops, server, pc, scanData, isScanning, modal, check,
                 aiProduct, trace, start, outcome>>

\* AuthContext handleLogout while the scan request is in flight: createScanApi
\* sent it with the token, and the mutation's onSuccess or onError, those of
\* the render after the logout, read no token.
recordScanSignedOut(c) ==
  /\ pc[c] = "recording"
  /\ token[c]
  /\ token' = [token EXCEPT ![c] = FALSE]
  /\ \E net \in BackendOutcomes :
       LET b == scanData[c].productBarcode
           http == ScanStatus(products, b)
           r == apiFetch(net, http)
           ev == WriteEvent("scan", net, http, r)
       IN /\ scans' = IF Handled(net)
                        THEN RecordScans(products, scans, c, b)
                        ELSE scans
          /\ IF ~r.hasError THEN onSuccess(c, Lookup(products, b), ev)
             ELSE IF IsProductNotFound(r) THEN onErrorNotFound(c, ev)
             ELSE onErrorGeneric(c, ev)
  /\ UNCHANGED <<external, now, ops, products, ingredientsForm, modal, aiProduct>>

\* The tabs, and users who sign out of them.
NextSignOut ==
  \/ Next
  \/ \E c \in Clients :
       \/ signedOut(c)
       \/ recordScanSignedOut(c)

SpecSignOut == Init /\ [][NextSignOut]_vars

\* Every call a tab is waiting for returns: the continuation of each await is
\* taken sooner or later.  What the user does, and the passing of days, is
\* left free.
Returns(c) ==
  \/ decodeReturn(c)
  \/ recordScan(c)
  \/ offLookup(c)
  \/ createProduct(c)
  \/ classify(c)
  \/ updateStatus(c)
  \/ extractReturn(c)
  \/ uploadReturn(c)
  \/ saveAiProduct(c)

SpecFair == Spec /\ \A c \in Clients : WF_vars(Returns(c))

\* ----------------------------------------- the normalisation, on its own
\* The raw products Open Food Facts can answer with: every field is either
\* empty or filled, a filled field holding its own name so that the payload
\* tells which field a value was taken from.
OffFieldNames == {OffFields[i] : i \in 1..Len(OffFields)}

OffRawProducts ==
  { [f \in OffFieldNames |-> IF f \in filled THEN f ELSE ""] : filled \in SUBSET OffFieldNames }

\* No payload was built yet.
NoPayload == [barcode |-> "", name |-> "", ingredients |-> "", pictureUrl |-> ""]

InitNormalize ==
  /\ OthersAtRest
  /\ offProduct \in OffRawProducts
  /\ productPayload = NoPayload
  /\ now = 0
  /\ ops = 0
  /\ ingredientsForm = "string"
  /\ products = <<>>
  /\ scans = EmptyBag
  /\ token = [c \in Clients |-> TRUE]
  /\ pc = [c \in Clients |-> "idle"]
  /\ scanData = [c \in Clients |-> NoScanData]
  /\ isScanning = [c \in Clients |-> FALSE]
  /\ showUploadModal = [c \in Clients |-> FALSE]
  /\ uploadedImages = [c \in Clients |-> 0]
  /\ currentBarcodeForUpload = [c \in Clients |-> ""]
  /\ snap = [c \in Clients |-> NoProduct]
  /\ ai = [c \in Clients |-> NoAi]
  /\ aiProduct = [c \in Clients |-> NoAiProduct]
  /\ trace = [c \in Clients |-> <<>>]
  /\ start = [c \in Clients |-> 0]
  /\ outcome = [c \in Clients |-> "none"]

\* fetchProductFromOpenFoodFacts builds the productPayload of a barcode from
\* the raw product.
buildProductPayload ==
  /\ productPayload = NoPayload
  /\ \E b \in Barcodes : productPayload' = OffPayload(b, offProduct)
  /\ UNCHANGED <<offProduct, others, now, ops, server, token, pc, scanData, isScanning,
                 modal, check, aiProduct, trace, start, outcome>>

NextNormalize == buildProductPayload

SpecNormalize == InitNormalize /\ [][NextNormalize]_vars

\* The scan screen before its first step, with an empty catalog; the
\* specifications of the other parts of the application leave it there.
ScanTabAtRest ==
  /\ offProduct = OffProduct("0001")
  /\ productPayload = OffPayload("0001", offProduct)
  /\ now = 0
  /\ ops = 0
  /\ ingredientsForm = "string"
  /\ products = <<>>
  /\ scans = EmptyBag
  /\ token = [c \in Clients |-> TRUE]
  /\ pc = [c \in Clients |-> "idle"]
  /\ scanData = [c \in Clients |-> NoScanData]
  /\ isScanning = [c \in Clients |-> FALSE]
  /\ showUploadModal = [c \in Clients |-> FALSE]
  /\ uploadedImages = [c \in Clients |-> 0]
  /\ currentBarcodeForUpload = [c \in Clients |-> ""]
  /\ snap = [c \in Clients |-> NoProduct]
  /\ ai = [c \in Clients |-> NoAi]
  /\ aiProduct = [c \in Clients |-> NoAiProduct]
  /\ trace = [c \in Clients |-> <<>>]
  /\ start = [c \in Clients |-> 0]
  /\ outcome = [c \in Clients |-> "none"]

scanTab == <<offProduct, productPayload, now, ops, server, token, pc, scanData, isScanning,
             modal, check, aiProduct, trace, start, outcome>>

\* ------------------------------------------------------- apiFetch, on its own
\* The HTTP statuses a server answers with.
HttpStatuses == {200, 201, 202, 204, 304, 400, 401, 403, 404, 405, 409, 413, 422, 429,
                 500, 502, 503, 504}

\* What fetch() can do with a request: the status is that of the response, or
\* of the response that did not arrive.
FetchOutcomes ==
  { f \in [net : NetOutcomes, http : HttpStatuses] : f.net = "http5xx" => f.http = 500 }

\* response.ok
ResponseOk(httpStatus) == httpStatus >= 200 /\ httpStatus <= 299

InitFetch ==
  /\ ScanTabAtRest
  /\ fetched \in FetchOutcomes
  /\ apiResponse = NoApiResponse
  /\ s3Env = CompleteS3Env
  /\ s3Call = NoS3Call
  /\ s3Response = NoS3Response
  /\ ImageUploadAtRest
  /\ AuthAtRest

\* A call of apiFetch returns.
apiFetchCall ==
  /\ apiResponse = NoApiResponse
  /\ apiResponse' = apiFetch(fetched.net, fetched.http)
  /\ UNCHANGED <<scanTab, fetched, s3Upload, imageUpload, auth>>

NextFetch == apiFetchCall

SpecFetch == InitFetch /\ [][NextFetch]_vars

\* --------------------------------------------- uploadFileToS3, on its own
InitS3 ==
  /\ ScanTabAtRest
  /\ fetched = NoFetch
  /\ apiResponse = NoApiResponse
  /\ s3Env \in S3Envs
  /\ s3Call \in [file : Files, put : PutOutcomes]
  /\ s3Response = NoS3Response
  /\ ImageUploadAtRest
  /\ AuthAtRest

\* A call of uploadFileToS3 returns.
uploadFileToS3Call ==
  /\ s3Response = NoS3Response
  /\ s3Response' = uploadFileToS3(s3Env, s3Call.file, s3Call.put)
  /\ UNCHANGED <<scanTab, apiCall, s3Env, s3Call, imageUpload, auth>>

NextS3 == uploadFileToS3Call

SpecS3 == InitS3 /\ [][NextS3]_vars

\* ------------------------------------------------ the ImageUpload component
\* The maxImages prop (its default).
maxImages == 5

\* Files picked over the life of the component.
MaxFiles == 6

\* What the user picks in one use of the file input: one file or three.
PickedFiles == { [type |-> "image/png", size |-> 1024],
                 [type |-> "image/png", size |-> MaxFileSize + 1],
                 [type |-> "application/pdf", size |-> 1024] }
Picks == { <<f>> : f \in PickedFiles }
           \cup { <<f, g, [type |-> "image/png", size |-> 1024]>> : f, g \in PickedFiles }

\* The outcomes of a PutObject the component's uploads meet.
UploadPutOutcomes == {"ok", "http403", "NetworkError"}

\* handleImageSelect: the client-side tests of type and size.
Selectable(file) ==
  /\ file.type \in {"image/jpeg", "image/png", "image/gif", "image/webp"}
  /\ ~(file.size > 5 * 1024 * 1024)

\* uploadedImages.map(img => img.s3Url).join(','): the dependency of the
\* effect that calls onImagesChange.  An s3Url that is not set joins as "",
\* an S3UploadResponse as "[object Object]".
RECURSIVE JoinS3Urls(_)
JoinS3Urls(imgs) ==
  IF imgs = <<>> THEN ""
  ELSE LET one == IF Head(imgs).s3Url = NoS3Response THEN "" ELSE "[object Object]"
       IN IF Len(imgs) = 1 THEN one ELSE one \o "," \o JoinS3Urls(Tail(imgs))

\* The effect's body: the s3Url of every image that is 'success' and has one.
SuccessfulS3Urls(imgs) ==
  LET ok == SelectSeq(imgs, LAMBDA img : img.status = "success" /\ img.s3Url # NoS3Response)
  IN [i \in 1..Len(ok) |-> ok[i].s3Url]

\* setUploadedImages followed by the effects of the render it causes.
SetUploadedImages(imgs) ==
  /\ uploadableImages' = imgs
  /\ successfulS3Urls' = IF JoinS3Urls(imgs) # JoinS3Urls(uploadableImages)
                            THEN SuccessfulS3Urls(imgs)
                          ELSE successfulS3Urls

InitImageUpload ==
  /\ ScanTabAtRest
  /\ fetched = NoFetch
  /\ apiResponse = NoApiResponse
  /\ s3Env \in {CompleteS3Env, [CompleteS3Env EXCEPT !["VITE_AWS_S3_REGION"] = FALSE]}
  /\ s3Call = NoS3Call
  /\ s3Response = NoS3Response
  /\ ImageUploadAtRest
  /\ AuthAtRest

\* handleImageSelect, with startUpload of each new image up to its await: the
\* files beyond the free slots and the files that fail the tests are dropped,
\* the others are appended and their upload started.
handleImageSelect ==
  /\ Len(uploadableImages) < maxImages
  /\ \E files \in Picks :
       LET remainingSlots == maxImages - Len(uploadableImages)
           filesToProcess ==
             SubSeq(files, 1, IF Len(files) < remainingSlots THEN Len(files)
                              ELSE remainingSlots)
           valid == SelectSeq(filesToProcess, Selectable)
           newUploadableImages ==
             [i \in 1..Len(valid) |->
                [id |-> filesSelected + i, file |-> valid[i], s3Url |-> NoS3Response,
                 status |-> "uploading", error |-> ""]]
       IN /\ filesSelected + Len(files) <= MaxFiles
          /\ filesSelected' = filesSelected + Len(files)
          /\ SetUploadedImages(uploadableImages \o newUploadableImages)
  /\ UNCHANGED <<scanTab, apiCall, s3Upload, auth>>

\* startUpload after uploadFileToS3 returned: whatever it returned is stored
\* as the s3Url of the image, which becomes 'success' and loses its file.
startUploadReturn ==
  /\ \E i \in 1..Len(uploadableImages), put \in UploadPutOutcomes :
       LET img == uploadableImages[i]
           s3Url == uploadFileToS3(s3Env, img.file, put)
       IN /\ img.status = "uploading"
          /\ SetUploadedImages([uploadableImages EXCEPT ![i] =
                 [img EXCEPT !.status = "success", !.s3Url = s3Url, !.file = NoFile]])
  /\ UNCHANGED <<scanTab, apiCall, s3Upload, filesSelected, auth>>

\* removeImage.
removeImage ==
  /\ \E i \in 1..Len(uploadableImages) :
       SetUploadedImages(SelectSeq(uploadableImages,
                                   LAMBDA img : img.id # uploadableImages[i].id))
  /\ UNCHANGED <<scanTab, apiCall, s3Upload, filesSelected, auth>>

\* retryUpload of the image at position i, with startUpload up to its await.
retryUpload(i) ==
  /\ i \in 1..Len(uploadableImages)
  /\ uploadableImages[i].file # NoFile
  /\ uploadableImages[i].status = "error"
  /\ SetUploadedImages([uploadableImages EXCEPT ![i] =
         [@ EXCEPT !.status = "uploading", !.error = ""]])
  /\ UNCHANGED <<scanTab, apiCall, s3Upload, filesSelected, auth>>

\* The buttons the component shows.  Retry is shown on an image that is
\* 'error' and has its file: no image gets there (startUpload reaches its
\* catch only when uploadFileToS3 throws, and it returns its failures), so
\* retryUpload is no step of the component.
NextImageUpload ==
  \/ handleImageSelect
  \/ startUploadReturn
  \/ removeImage

SpecImageUpload == InitImageUpload /\ [][NextImageUpload]_vars

\* ------------------------------------------------------- the AuthProvider
AuthTokens == {"t1", "t2"}
AuthUsers == {"u1", "u2"}

\* What localStorage can hold when the provider mounts: any token or none, and
\* under 'user' a user, nothing, or text that is no JSON.
StoredBefore == [authToken : AuthTokens \cup {""}, user : AuthUsers \cup {"", "not json"}]

\* getUserFromLocalStorage: text that does not parse is removed and read as
\* no user.
getUserFromLocalStorage(stored) == IF stored.user = "not json" THEN "" ELSE stored.user

InitAuth ==
  /\ ScanTabAtRest
  /\ fetched = NoFetch
  /\ apiResponse = NoApiResponse
  /\ s3Env = CompleteS3Env
  /\ s3Call = NoS3Call
  /\ s3Response = NoS3Response
  /\ ImageUploadAtRest
  /\ \E stored \in StoredBefore :
       /\ localStorage = [stored EXCEPT !.user = getUserFromLocalStorage(stored)]
       /\ authState = [user |-> getUserFromLocalStorage(stored), token |-> stored.authToken]
  /\ isInitialLoading = (authState.token # "" /\ authState.user = "")
  /\ authPending = NothingPending
  /\ lastAttempt = NoAttempt

\* A variant of handleLogout that clears the state and leaves localStorage.
handleLogoutStateOnly ==
  /\ authState' = NoCredentials
  /\ UNCHANGED localStorage

\* handleLogout: setUserWithStorage(null) and setToken(null).
handleLogout ==
  /\ authState' = NoCredentials
  /\ localStorage' = NothingStored

\* What authApi.login and authApi.register answer, and whether
\* localStorage.setItem throws (its quota is exceeded) when the answer is
\* stored.
AuthAnswers ==
  [error : BOOLEAN, token : AuthTokens \cup {""}, user : AuthUsers \cup {""},
   setItemThrows : BOOLEAN]

\* login and register after the await: an error response or an answer
\* without a token is thrown, and so is a failure to store; the catch block
\* calls handleLogout and ends the loading.  Otherwise the token is stored,
\* and the user if the answer carries one; the loading ends once there is a
\* user (the handler, or the effect on token and user).
AttemptReturn(kind, answer) ==
  /\ authPending[kind]
  /\ authPending' = [authPending EXCEPT ![kind] = FALSE]
  /\ IF answer.error \/ answer.token = "" \/ answer.setItemThrows
       THEN /\ handleLogout
            /\ isInitialLoading' = FALSE
            /\ lastAttempt' = [kind |-> kind, failed |-> TRUE]
       ELSE /\ authState' = [token |-> answer.token,
                             user |-> IF answer.user # "" THEN answer.user
                                      ELSE authState.user]
            /\ localStorage' = [authToken |-> answer.token,
                                user |-> IF answer.user # "" THEN answer.user
                                         ELSE localStorage.user]
            /\ isInitialLoading' = (isInitialLoading /\ authState'.user = "")
            /\ lastAttempt' = [kind |-> kind, failed |-> FALSE]
  /\ UNCHANGED <<scanTab, apiCall, s3Upload, imageUpload>>

\* login up to its await of authApi.login.
login ==
  /\ ~authPending.login
  /\ authPending' = [authPending EXCEPT !.login = TRUE]
  /\ isInitialLoading' = TRUE
  /\ UNCHANGED <<scanTab, apiCall, s3Upload, imageUpload, authState, localStorage,
                 lastAttempt>>

loginReturn == \E answer \in AuthAnswers : AttemptReturn("login", answer)

\* register up to its await of authApi.register.
register ==
  /\ ~authPending.register
  /\ authPending' = [authPending EXCEPT !.register = TRUE]
  /\ isInitialLoading' = TRUE
  /\ UNCHANGED <<scanTab, apiCall, s3Upload, imageUpload, authState, localStorage,
                 lastAttempt>>

registerReturn == \E answer \in AuthAnswers : AttemptReturn("register", answer)

\* The user signs out; the effect on token and user ends the loading.
logout ==
  /\ authState.token # ""
  /\ handleLogout
  /\ isInitialLoading' = FALSE
  /\ UNCHANGED <<scanTab, apiCall, s3Upload, imageUpload, authPending, lastAttempt>>

\* The currentUser query, enabled while there is a token, settles: the user
\* it fetched is stored, 'Unauthorized' signs out, another error changes
\* nothing; onSettled ends the loading.
currentUserSettled ==
  /\ authState.token # ""
  /\ isInitialLoading' = FALSE
  /\ \/ \E u \in AuthUsers :
          /\ authState' = [authState EXCEPT !.user = u]
          /\ localStorage' = [localStorage EXCEPT !.user = u]
     \/ handleLogout
     \/ UNCHANGED <<authState, localStorage>>
  /\ UNCHANGED <<scanTab, apiCall, s3Upload, imageUpload, authPending, lastAttempt>>

\* The effects that fall back on the stored user put the user of
\* localStorage into the state when there is a token and no user in the
\* state: the two are written together by setUserWithStorage, so the effects
\* find nothing to do and are no step of the provider.
NextAuth ==
  \/ login
  \/ loginReturn
  \/ register
  \/ registerReturn
  \/ logout
  \/ currentUserSettled

SpecAuth == InitAuth /\ [][NextAuth]_vars

TypeOK ==
  /\ now \in 0..MaxDay
  /\ ops \in 0..MaxOps
  /\ token \in [Clients -> BOOLEAN]
  /\ isScanning \in [Clients -> BOOLEAN]
  /\ showUploadModal \in [Clients -> BOOLEAN]
  /\ uploadedImages \in [Clients -> 0..MaxImages]
  /\ currentBarcodeForUpload \in [Clients -> Barcodes \cup {""}]
  /\ outcome \in [Clients -> {"none", "FoundLocal", "FoundExternal",
                              "NeedsCommunityInput", "Failed"}]
  /\ \A c \in Clients :
       /\ start[c] \in 0..Len(trace[c])
       /\ start[c] > 0 <=> Count(trace[c], ResolveMarks) > 0
       /\ start[c] > 0 => start[c] = LastIdx(trace[c], ResolveMarks)

\* ----------------------------------------------------- reading the trace
\* The barcode of the resolution running or last run in the tab.
Target(c) == Cur(c)[2]

N(c, S) == Count(Cur(c), S)

\* Position of an event in the tab's resolution, 0 if it did not happen.
At(c, e) == FirstIdx(Cur(c), {e})

Ended(c) == outcome[c] # "none"
Succeeded(c) == outcome[c] \in {"FoundLocal", "FoundExternal"}
Resolving(c) == pc[c] \in {"recording", "offLookup", "creating"}

OffEvents == {"off:hit", "off:404", "off:noproduct", "off:null", "off:neterr",
              "off:5xx", "off:badjson"}
OffUpstreamErrors == {"off:null", "off:neterr", "off:5xx", "off:badjson"}
OffNoEntry == {"off:404", "off:noproduct"}
CreateEvents == {"create:ok", "create:conflict", "create:err"}
ClassifierEvents == {"classify:ok", "classify:err"}
UpdateEvents == {"update:ok", "update:err", "update:404"}

ProductsOf(b) == {i \in 1..Len(products) : products[i].barcode = b}

ScanOf(c, b) == BagIn([userId |-> c, productBarcode |-> b], scans)

\* ------------------------------------------------------------ the claims

\* C1: a resolution whose Product create was rejected with a uniqueness
\* conflict does not end in an error: it goes on as FoundLocal and records
\* exactly one ScanEvent.
C1_ConflictEndsInSuccess ==
  \A c \in Clients :
    Has(Cur(c), "create:conflict") =>
      /\ outcome[c] # "Failed"
      /\ ~Resolving(c) => (outcome[c] = "FoundLocal" /\ N(c, {"scan:ok"}) = 1)

\* Two tabs resolved the same new barcode concurrently; the create of one was
\* rejected with the conflict and its resolution reported as failed, with no
\* ScanEvent of that tab.
C1_Witness ==
  \E c, d \in Clients :
    /\ c # d
    /\ Cur(c) # <<>> /\ Cur(d) # <<>>
    /\ Target(c) = Target(d)
    /\ Has(Cur(d), "create:ok")
    /\ Has(Cur(c), "create:conflict")
    /\ Cur(c)[Len(Cur(c))] = "create:conflict"
    /\ outcome[c] = "Failed"
    /\ ~ScanOf(c, Target(c))

\* C2: in every reachable state the catalog holds at most one Product record
\* per barcode.
C2_OneProductPerBarcode ==
  \A b \in Barcodes : Cardinality(ProductsOf(b)) <= 1

\* Two tabs resolved the same new barcode concurrently: both sent a create,
\* one was accepted and one rejected.
C2_Witness ==
  \E c, d \in Clients :
    /\ c # d
    /\ Cur(c) # <<>> /\ Cur(d) # <<>>
    /\ Head(Cur(c)) = "resolve:absent" /\ Head(Cur(d)) = "resolve:absent"
    /\ Target(c) = Target(d)
    /\ Has(Cur(c), "create:ok") /\ Has(Cur(d), "create:conflict")
    /\ Cardinality(ProductsOf(Target(c))) = 1

\* C3: a resolution of a barcode the catalog already holds makes no external
\* lookup and no Product write and records at most one ScanEvent; it ends as
\* FoundLocal with exactly one ScanEvent, unless the scan request itself
\* failed (no token, network or server error), in which case it ends as
\* Failed with none.
C3_FoundLocal ==
  \A c \in Clients :
    LET cur == Cur(c) IN
    (cur # <<>> /\ Head(cur) = "resolve:local") =>
      /\ Count(cur, OffEvents \cup CreateEvents \cup {"scan:404"}) = 0
      /\ Count(cur, {"scan:ok"}) <= 1
      /\ Ended(c) =>
           \/ /\ outcome[c] = "FoundLocal"
              /\ Count(cur, {"scan:ok"}) = 1
              /\ ScanOf(c, cur[2])
           \/ /\ outcome[c] = "Failed"
              /\ Count(cur, {"scan:ok"}) = 0
              /\ Count(cur, {"scan:err", "scan:noauth"}) = 1

C3_Witness ==
  \E c \in Clients :
    /\ Cur(c) # <<>> /\ Head(Cur(c)) = "resolve:local"
    /\ outcome[c] = "FoundLocal"
    /\ N(c, {"scan:ok"}) = 1
    /\ ScanOf(c, Target(c))
    /\ Cardinality(ProductsOf(Target(c))) = 1

\* C4: a resolution of a barcode that the catalog does not hold (the scan
\* request is answered "product not found") and the external catalog does
\* not know writes no ScanEvent and no Product, and ends as
\* NeedsCommunityInput, the prompt being for that barcode (or as Failed when
\* the lookup itself failed).
C4_NeedsCommunityInput ==
  \A c \in Clients :
    LET cur == Cur(c) IN
    (cur # <<>> /\ ~OffHas(cur[2]) /\ Has(cur, "scan:404")) =>
      /\ Count(cur, CreateEvents \cup {"scan:ok"}) = 0
      /\ Ended(c) =>
           \/ /\ outcome[c] = "NeedsCommunityInput"
              /\ Count(cur, OffNoEntry) = 1
              /\ currentBarcodeForUpload[c] = cur[2]
           \/ /\ outcome[c] = "Failed"
              /\ Count(cur, OffUpstreamErrors) = 1

C4_Witness ==
  \E c \in Clients :
    /\ Cur(c) # <<>> /\ ~OffHas(Target(c)) /\ Has(Cur(c), "scan:404")
    /\ outcome[c] = "NeedsCommunityInput"
    /\ showUploadModal[c] /\ uploadedImages[c] = 0
    /\ currentBarcodeForUpload[c] = Target(c)
    /\ ProductsOf(Target(c)) = {}
    /\ ~ScanOf(c, Target(c))

C6_Ordering ==
  \A c \in Clients :
    LET cur == Cur(c)
        lastCreate == LastIdx(cur, CreateEvents)
        firstScan == FirstIdx(cur, {"scan:ok"})
        firstCheck == FirstIdx(cur, {"trigger"} \cup ClassifierEvents \cup UpdateEvents)
    IN
    /\ Count(cur, {"scan:ok"}) <= 1
    /\ (lastCreate > 0 /\ firstScan > 0) => lastCreate < firstScan
    /\ firstCheck > 0 => (firstScan > 0 /\ firstScan < firstCheck)
    /\ pc[c] \in {"classifying", "updating"} => firstScan > 0

C6_Witness ==
  \E c \in Clients :
    /\ At(c, "create:ok") > 0
    /\ At(c, "create:ok") < At(c, "scan:ok")
    /\ At(c, "scan:ok") < At(c, "trigger")

\* C7: every recorded ScanEvent references a barcode for which a Product
\* record exists.
C7_ScanHasProduct ==
  \A s \in BagToSet(scans) : InCatalog(products, s.productBarcode)

\* A ScanEvent for a Product that this run created.
C7_Witness ==
  \E c \in Clients :
    /\ outcome[c] = "FoundExternal"
    /\ ScanOf(c, Target(c))
    /\ InCatalog(products, Target(c))

\* C8: a resolution ends with exactly one outcome, decided by how it went; it
\* sends at most one Product create and writes at most one ScanEvent, exactly
\* one when it succeeds and none otherwise; and it ends: it is never stuck
\* while it runs, and it takes a bounded number of steps.
C8_OneOutcome ==
  \A c \in Clients :
    LET cur == Cur(c)
        creates == Count(cur, CreateEvents)
        scanned == Count(cur, {"scan:ok"})
        noEntry == Count(cur, OffNoEntry)
    IN
    cur # <<>> =>
      /\ creates <= 1
      /\ scanned <= 1
      /\ Len(cur) <= 11
      /\ pc[c] = "recording" => (~Ended(c) /\ ENABLED recordScan(c))
      /\ pc[c] = "offLookup" => (~Ended(c) /\ ENABLED offLookup(c))
      /\ pc[c] = "creating" => (~Ended(c) /\ ENABLED createProduct(c))
      /\ ~Resolving(c) => Ended(c)
      /\ Succeeded(c) <=> scanned = 1
      /\ outcome[c] = "FoundExternal" <=> (scanned = 1 /\ Has(cur, "create:ok"))
      /\ outcome[c] = "NeedsCommunityInput" <=> (noEntry = 1 /\ scanned = 0)
      /\ outcome[c] = "Failed" <=> (~Resolving(c) /\ scanned = 0 /\ noEntry = 0)

\* A resolution that went through the external catalog and succeeded on its
\* second attempt.
C8_Witness ==
  \E c \in Clients :
    /\ outcome[c] = "FoundExternal"
    /\ N(c, {"scan:404"}) = 1 /\ N(c, {"off:hit"}) = 1
    /\ N(c, {"create:ok"}) = 1 /\ N(c, {"scan:ok"}) = 1
    /\ pc[c] = "idle"

\* C9: a network or server error of the scan request or of the Product
\* create ends the resolution as Failed, reported and not swallowed; nothing
\* follows the failure (no external lookup, no create, no retry), the upload
\* prompt is not opened, and an external lookup only ever follows a "product
\* not found" answer.
C9_StoreErrorIsFailed ==
  \A c \in Clients :
    LET cur == Cur(c)
        failure == FirstIdx(cur, {"scan:err", "create:err"})
        firstOff == FirstIdx(cur, OffEvents)
        notFound == FirstIdx(cur, {"scan:404"})
    IN
    /\ failure > 0 =>
         /\ failure = Len(cur)
         /\ outcome[c] = "Failed"
         /\ pc[c] = "idle" /\ ~isScanning[c]
         /\ ~showUploadModal[c]
    /\ firstOff > 0 => (notFound > 0 /\ notFound < firstOff)

C9_Witness ==
  \E c, d \in Clients :
    /\ Has(Cur(c), "scan:err") /\ Head(Cur(c)) = "resolve:absent"
    /\ outcome[c] = "Failed"
    /\ Has(Cur(d), "create:err") /\ outcome[d] = "Failed"

\* C10: scanning a Product whose status was evaluated less than 7 days ago
\* calls the classifier zero times and writes the status zero times; when the
\* staleness check runs, it ends at once in Fresh.
C10_FreshNoClassifier ==
  \A c \in Clients :
    LET cur == Cur(c) IN
    Has(cur, "age:recent") =>
      /\ Count(cur, ClassifierEvents \cup UpdateEvents) = 0
      /\ pc[c] \notin {"classifying", "updating"}
      /\ Has(cur, "trigger") => Has(cur, "fresh")

\* A Product evaluated six days ago is scanned and found Fresh.
C10_Witness ==
  \E c \in Clients :
    /\ Cur(c) # <<>> /\ Head(Cur(c)) = "resolve:local"
    /\ Has(Cur(c), "age:recent") /\ Has(Cur(c), "fresh")
    /\ \E i \in ProductsOf(Target(c)) : now - products[i].createdAt = StaleDays - 1

\* The staleness check of the tab is suspended at one of its awaits.
Checking(c) == pc[c] \in {"classifying", "updating"}

\* C11: every successful resolution triggers the staleness check exactly
\* once, and when the status of the product scanned is 7 days old or older
\* (exactly 7 days too) the classifier is called exactly once for that scan.
C11_StaleScanClassifiedOnce ==
  \A c \in Clients :
    LET cur == Cur(c) IN
    Succeeded(c) =>
      /\ Count(cur, {"trigger"}) = 1
      /\ Count(cur, ClassifierEvents) <= 1
      /\ Has(cur, "age:old") =>
           (pc[c] = "classifying" \/ Count(cur, ClassifierEvents) = 1)

\* A product whose status is exactly 7 days old was scanned, the scan
\* succeeded, and the handler returned without the check and without a call
\* of the classifier.
C11_Witness ==
  \E c \in Clients :
    /\ Succeeded(c) /\ pc[c] = "idle"
    /\ Has(Cur(c), "age:old") /\ Has(Cur(c), "skip")
    /\ Count(Cur(c), {"trigger"} \cup ClassifierEvents) = 0
    /\ ingredientsForm = "array"
    /\ \E i \in ProductsOf(Target(c)) : now - products[i].createdAt = StaleDays

\* The last event of a tab's trace after the step, "" when there is none.
LastEvent(tr) == IF Len(tr) = 0 THEN "" ELSE tr[Len(tr)]

\* C12: when the classifier is called for a product whose status is stale and
\* returns a label that differs from the stored one, the status update is
\* issued with the new label and explanation, and once the backend has
\* answered it the stored status holds them and its evaluation time is the
\* current day, so that the next scan finds the product fresh.
C12_StaleRelabelled ==
  [][\A c \in Clients :
       /\ (pc[c] = "classifying" /\ pc'[c] = "updating") =>
            /\ Has(Cur(c), "age:old")
            /\ ai'[c].status \in Labels
            /\ ai'[c].status # snap[c].status.status
       /\ (pc[c] = "updating" /\ Has(trace'[c], "update:ok")) =>
            LET p == Lookup(products', snap[c].barcode) IN
              /\ p.status = ai[c]
              /\ p.createdAt = now
              /\ IsRecent(p, now')]_vars

C12_Witness ==
  \E c \in Clients :
    /\ pc[c] = "idle" /\ Succeeded(c)
    /\ Has(Cur(c), "age:old")
    /\ Has(trace[c], "update:ok")
    /\ \E i \in ProductsOf(Target(c)) :
         /\ products[i].status.status = "contains-gluten"
         /\ products[i].status.explanation = "because"
         /\ products[i].createdAt = now

\* C13: when the call of the classifier fails (it throws, times out or returns
\* an error) the check ends there: no status update is issued, then or later
\* in that check, and the stored products are what they were.
C13_ClassifierErrorNoWrite ==
  [][\A c \in Clients :
       /\ (pc[c] = "classifying" /\ LastEvent(trace'[c]) = "classify:err") =>
            /\ products' = products
            /\ pc'[c] = "idle"
       /\ Has(trace[c], "classify:err") =>
            /\ ~Checking(c)
            /\ Count(trace[c], UpdateEvents) = 0]_vars

C13_Witness ==
  \E c \in Clients :
    /\ pc[c] = "idle" /\ Succeeded(c)
    /\ LastEvent(trace[c]) = "classify:err"
    /\ \E i \in ProductsOf(Target(c)) :
         /\ products[i].status = [status |-> "gluten-free", explanation |-> "oats only"]
         /\ products[i].createdAt = 1 - StaleDays

\* C14: a reply of the classifier in which no label can be found (malformed or
\* empty) leaves the product as it is: no status update is issued in that
\* check, and a stored gluten-free or contains-gluten is never replaced by
\* unknown.
C14_UnparseableNoWrite ==
  \A c \in Clients :
    Has(trace[c], "reply:nolabel") =>
      /\ pc[c] # "updating"
      /\ Count(trace[c], UpdateEvents) = 0
      /\ \A i \in ProductsOf(Target(c)) : products[i].status.status # "unknown"

C14_Witness ==
  \E c \in Clients :
    /\ pc[c] = "idle" /\ Succeeded(c)
    /\ Has(trace[c], "reply:nolabel")
    /\ Has(trace[c], "update:ok")
    /\ Target(c) = "0001"
    /\ \E i \in ProductsOf("0001") :
         /\ products[i].status.status = "unknown"
         /\ products[i].createdAt = now

\* C15: when the classifier returns the label already stored for a stale
\* product, label and explanation stay as they are and the evaluation time is
\* refreshed, so that the product is fresh for the scans of the next 7 days
\* and they call the classifier no more.
C15_UnchangedRefreshesTime ==
  \A c \in Clients :
    (pc[c] = "idle" /\ LastEvent(trace[c]) = "unchanged") =>
      \A i \in ProductsOf(Target(c)) : IsRecent(products[i], now)

C15_Witness ==
  \E c \in Clients :
    /\ pc[c] = "idle" /\ Succeeded(c)
    /\ Has(Cur(c), "age:old") /\ Has(Cur(c), "classify:ok")
    /\ LastEvent(trace[c]) = "unchanged"
    /\ \E i \in ProductsOf(Target(c)) :
         /\ products[i].status = [status |-> "gluten-free", explanation |-> "oats only"]
         /\ products[i].createdAt = 1 - StaleDays
         /\ ~IsRecent(products[i], now)

\* What a failed step of the staleness check leaves in the trace.
CheckFailures == {"classify:err", "update:err", "update:404"}

\* C16: the staleness check runs apart from the scan's answer: while it waits
\* for the classifier or for the status update, the scan is already reported
\* as succeeded, the spinner is cleared and the scan is recorded; and after a
\* failure of the classifier or of the update the scan is still a success and
\* still recorded.
C16_CheckDetached ==
  \A c \in Clients :
    LET cur == Cur(c) IN
    (Checking(c) \/ Count(cur, CheckFailures) > 0) =>
      /\ ~isScanning[c]
      /\ Succeeded(c)
      /\ ScanOf(c, cur[2])

C16_Witness ==
  \E c \in Clients :
    /\ pc[c] = "idle" /\ ~isScanning[c]
    /\ LastEvent(trace[c]) = "update:err"
    /\ Has(Cur(c), "scan:ok")
    /\ outcome[c] = "FoundLocal"
    /\ ScanOf(c, Target(c))

\* A submission of the tab is past its validations: at the extractor, the
\* upload or the create.
Submitting(c) == pc[c] \in {"extracting", "uploading", "savingAI"}

\* C17: a submission with fewer than 4 images is answered with the validation
\* error and goes no further: the handler's validation rejects it, the Submit
\* button is disabled, and no call of the extractor, upload or create is ever
\* in flight for fewer than 4 images.
C17_TooFewImagesRejected ==
  \A c \in Clients :
    /\ Submitting(c) => uploadedImages[c] >= MinImages
    /\ (showUploadModal[c] /\ uploadedImages[c] < MinImages) =>
         /\ Validation(uploadedImages[c], currentBarcodeForUpload[c]) = "submit:invalid"
         /\ SubmitDisabled(c)
         /\ ~Submitting(c)
    /\ Has(trace[c], "submit:invalid") =>
         Count(trace[c], {"extract:ok", "extract:err", "upload:ok", "upload:err"}
                           \cup CreateEvents) = 0

C17_Witness ==
  \E c \in Clients :
    /\ pc[c] = "idle" /\ showUploadModal[c]
    /\ uploadedImages[c] = MinImages - 1
    /\ currentBarcodeForUpload[c] \in Barcodes
    /\ ~ENABLED handleMultipleImageUpload(c)

\* What a failed extraction or a failed upload leaves in the trace.
SourcingFailures == {"extract:err", "upload:err"}

\* C18: when the extraction or the upload of a submission fails, the
\* submission ends there as a failure: the step creates no product, no create
\* is sent then or later in that submission, and no resolution is started.
C18_FailedSubmitCreatesNothing ==
  [][\A c \in Clients :
       /\ (Submitting(c) /\ LastEvent(trace'[c]) \in SourcingFailures) =>
            /\ products' = products
            /\ pc'[c] = "idle" /\ ~isScanning'[c]
       /\ Count(trace[c], SourcingFailures) > 0 =>
            /\ Count(trace[c], CreateEvents \cup ResolveMarks) = 0
            /\ pc[c] = "idle" /\ ~Succeeded(c)]_vars

C18_Witness ==
  \E c \in Clients :
    /\ pc[c] = "idle" /\ showUploadModal[c]
    /\ trace[c] = <<"submit", "extract:ok", "upload:err">>
    /\ \A i \in 1..Len(products) :
         products[i].pictureUrl # FirstImageUrl(products[i].barcode)

\* What a failed submission leaves last in the trace: the extraction, the
\* upload or the create failed.
SubmitFailures == SourcingFailures \cup {"create:err", "create:conflict"}

\* C19: after a submission failed at the extraction, the upload or the
\* create, the modal still holds the barcode and the images collected, so
\* that a repeat of the submit reaches the extractor again.
C19_RetryKeepsBarcodeAndImages ==
  \A c \in Clients :
    (/\ pc[c] = "idle" /\ showUploadModal[c]
     /\ Len(trace[c]) > 0 /\ trace[c][1] = "submit"
     /\ LastEvent(trace[c]) \in SubmitFailures) =>
      /\ currentBarcodeForUpload[c] \in Barcodes
      /\ uploadedImages[c] >= MinImages
      /\ Validation(uploadedImages[c], currentBarcodeForUpload[c]) = "ok"

C19_Witness ==
  \E c \in Clients :
    /\ pc[c] = "idle" /\ showUploadModal[c] /\ ~isScanning[c]
    /\ uploadedImages[c] >= MinImages
    /\ currentBarcodeForUpload[c] = ""
    /\ trace[c] = <<"submit", "submit:nobarcode">>

\* C20: the only step that changes a product already stored is the status
\* update of a staleness check, and it changes the status and its time and
\* nothing else; the creates of the external-catalog fallback and of the
\* community flow only add records, and add none when the barcode is taken.
C20_OnlyClassifierUpdates ==
  [][/\ Len(products') >= Len(products)
     /\ \A i \in 1..Len(products) :
          products'[i] # products[i] =>
            \E c \in Clients :
              /\ pc[c] = "updating" /\ pc'[c] = "idle"
              /\ snap[c].barcode = products[i].barcode
              /\ products'[i] = [products[i] EXCEPT !.status = ai[c],
                                                    !.createdAt = now]
     /\ \A c \in Clients :
          (pc[c] \in {"creating", "savingAI"} /\ pc'[c] # pc[c]) =>
            /\ SubSeq(products', 1, Len(products)) = products
            /\ LastEvent(trace'[c]) = "create:conflict" => products' = products]_vars

C20_Witness ==
  \E c \in Clients :
    /\ pc[c] = "idle"
    /\ LastEvent(Cur(c)) = "create:conflict"
    /\ \E i \in ProductsOf(Target(c)) :
         /\ products[i].createdAt = now - 1
         /\ products[i].status.status = "unknown"

\* The statuses a writer can have sent whole: the one a product is created
\* with, the one the catalog held at the start, and the payloads a staleness
\* check builds from an answer of the classifier.
CompleteStatuses ==
  {[status |-> "unknown", explanation |-> ""]}
  \cup {p.status : p \in InitialProducts("string")}
  \cup {StatusUpdatePayload(checkGlutenStatus(reply)) : reply \in GeminiReplies}

\* C21: when staleness checks of several scans write the status of the same
\* barcode, each write replaces label and explanation together: right after
\* a write the stored status is that writer's whole payload, and the stored
\* status is always the whole payload of one writer, never the label of one
\* with the explanation of another.
C21_LastWriteWinsWhole ==
  [][/\ \A c \in Clients :
          (pc[c] = "updating" /\ Has(trace'[c], "update:ok")) =>
            \A i \in 1..Len(products') :
              products'[i].barcode = snap[c].barcode => products'[i].status = ai[c]
     /\ \A i \in 1..Len(products') : products'[i].status \in CompleteStatuses]_vars

C21_Witness ==
  \E c, d \in Clients :
    /\ c # d /\ pc[c] = "idle" /\ pc[d] = "idle"
    /\ Cur(c) # <<>> /\ Cur(d) # <<>> /\ Target(c) = Target(d)
    /\ Has(Cur(c), "age:old") /\ Has(Cur(d), "age:old")
    /\ Has(trace[c], "update:ok") /\ Has(trace[d], "update:ok")
    /\ Has(trace[c], "reply:nolabel") /\ ~Has(trace[d], "reply:nolabel")
    /\ \E i \in ProductsOf(Target(c)) :
         products[i].status = [status |-> "contains-gluten", explanation |-> "because"]

\* C22: every product a step adds to the catalog, from the external catalog
\* or from community images, starts with the label unknown and with the day
\* of its creation as evaluation time.
C22_CreatedUnknown ==
  [][\A i \in 1..Len(products') :
       i > Len(products) =>
         /\ products'[i].status.status = "unknown"
         /\ products'[i].createdAt = now
         /\ \E c \in Clients :
              /\ pc[c] \in {"creating", "savingAI"}
              /\ Has(trace'[c], "create:ok") /\ ~Has(trace[c], "create:ok")]_vars

C22_Witness ==
  \E i, j \in 1..Len(products) :
    /\ products[i].pictureUrl = OffPayload(products[i].barcode,
                                           OffProduct(products[i].barcode)).pictureUrl
    /\ products[j].pictureUrl = FirstImageUrl(products[j].barcode)
    /\ products[i].status.status = "unknown" /\ products[j].status.status = "unknown"
    /\ products[i].createdAt = 0 /\ products[j].createdAt = 1

\* C23: a product whose create was committed stays in the catalog whatever
\* becomes of the scan that created it, and also when that scan is abandoned
\* there (its tab takes no further step, so that its ScanEvent and its
\* staleness check are missing): the record is the one that was created, and
\* a later scan of the barcode by another tab makes no external lookup and no
\* create and, unless its own scan request fails, ends FoundLocal with its
\* ScanEvent.
C23_CreatedProductReusable ==
  \A c \in Clients :
    LET cur == Cur(c) IN
    Has(cur, "create:ok") =>
      /\ Cardinality(ProductsOf(cur[2])) = 1
      /\ \A d \in Clients \ {c} :
           LET other == Cur(d) IN
           (other # <<>> /\ other[1] = "resolve:local" /\ other[2] = cur[2]) =>
             /\ Count(other, OffEvents \cup CreateEvents) = 0
             /\ outcome[d] \in {"none", "FoundLocal", "Failed"}
             /\ outcome[d] = "Failed" => LastEvent(other) \in {"scan:err", "scan:noauth"}
             /\ outcome[d] = "FoundLocal" => ScanOf(d, cur[2])

C23_Witness ==
  \E c, d \in Clients :
    /\ c # d
    /\ pc[c] = "recording" /\ LastEvent(trace[c]) = "create:ok"
    /\ Has(Cur(c), "create:ok") /\ ~ScanOf(c, Target(c))
    /\ Cur(d) # <<>> /\ Head(Cur(d)) = "resolve:local" /\ Target(d) = Target(c)
    /\ pc[d] = "idle" /\ outcome[d] = "FoundLocal" /\ ScanOf(d, Target(d))
    /\ Cardinality(ProductsOf(Target(c))) = 1

ExtractEvents == {"extract:ok", "extract:err"}
UploadEvents == {"upload:ok", "upload:err"}

\* C24: a submission that passed its validations (4 to 8 images and a
\* barcode) calls the extractor once, then uploads once (the first image,
\* under the barcode's path), then sends at most one create, in that order:
\* each step is taken only after the one before it succeeded, and a product
\* made from community images carries the picture path of its own barcode.
C24_SubmitCallOrder ==
  /\ \A c \in Clients :
       LET tr == trace[c] IN
       (Len(tr) > 0 /\ tr[1] = "submit") =>
         /\ Count(tr, ExtractEvents) <= 1
         /\ Count(tr, UploadEvents) <= 1
         /\ Count(tr, CreateEvents) <= 1
         /\ pc[c] = "extracting" => (Len(tr) = 1 /\ uploadedImages[c] \in MinImages..MaxImages)
         /\ pc[c] = "uploading" => tr = <<"submit", "extract:ok">>
         /\ pc[c] = "savingAI" => tr = <<"submit", "extract:ok", "upload:ok">>
         /\ Count(tr, UploadEvents) = 1 => (Len(tr) >= 3 /\ tr[2] = "extract:ok"
                                             /\ tr[3] \in UploadEvents)
         /\ Count(tr, CreateEvents) = 1 => (Len(tr) >= 4 /\ tr[2] = "extract:ok"
                                             /\ tr[3] = "upload:ok"
                                             /\ tr[4] \in CreateEvents)
  /\ \A i \in 1..Len(products) :
       (\E b \in Barcodes : products[i].pictureUrl = "products/" \o b) =>
         products[i].pictureUrl = "products/" \o products[i].barcode

C24_Witness ==
  \E c \in Clients :
    /\ Len(trace[c]) >= 4
    /\ SubSeq(trace[c], 1, 4) = <<"submit", "extract:ok", "upload:ok", "create:ok">>
    /\ Count(trace[c], ExtractEvents \cup UploadEvents \cup CreateEvents) = 3
    /\ \E i \in ProductsOf(Target(c)) :
         products[i].pictureUrl = "products/" \o Target(c)

ScanEvents == {"scan:ok", "scan:404", "scan:err", "scan:noauth"}

\* C25: once a submission has created its product, the barcode is resolved
\* again at once: the resolution finds the product in the catalog, makes no
\* external lookup and no further create, sends one scan request, and ends
\* FoundLocal with exactly one ScanEvent of the tab for the barcode, unless
\* that scan request itself fails (then Failed, with none).
C25_RescanAfterSubmit ==
  \A c \in Clients :
    LET tr == trace[c]
        cur == Cur(c)
    IN
    (Len(tr) > 0 /\ tr[1] = "submit" /\ Has(tr, "create:ok")) =>
      /\ start[c] = 5
      /\ cur[1] = "resolve:local"
      /\ \E i \in ProductsOf(cur[2]) : products[i].pictureUrl = FirstImageUrl(cur[2])
      /\ Count(cur, OffEvents \cup CreateEvents) = 0
      /\ IF pc[c] = "recording"
           THEN Count(cur, ScanEvents) = 0 /\ outcome[c] = "none"
           ELSE /\ Count(cur, ScanEvents) = 1
                /\ \/ /\ outcome[c] = "FoundLocal" /\ cur[3] = "scan:ok"
                      /\ CopiesIn([userId |-> c, productBarcode |-> cur[2]], scans) = 1
                   \/ /\ outcome[c] = "Failed" /\ cur[3] = "scan:err"
                      /\ ~ScanOf(c, cur[2])

C25_Witness ==
  \E c \in Clients :
    /\ pc[c] = "idle" /\ ~showUploadModal[c] /\ ~isScanning[c]
    /\ Len(trace[c]) >= 7
    /\ SubSeq(trace[c], 4, 7) = <<"create:ok", "resolve:local", "0002", "scan:ok">>
    /\ outcome[c] = "FoundLocal"
    /\ CopiesIn([userId |-> c, productBarcode |-> "0002"], scans) = 1

\* C26: when the extraction finds neither a name nor ingredients, the
\* community flow still creates the product, named "Unknown Product (from
\* AI)" and with empty ingredients.
C26_EmptyExtractionDefaults ==
  /\ \A c \in Clients :
       (pc[c] = "savingAI" /\ aiProduct[c].ingredients = "") =>
         AiPayload(currentBarcodeForUpload[c], aiProduct[c],
                   FirstImageUrl(currentBarcodeForUpload[c])).name
           = "Unknown Product (from AI)"
  /\ \A i \in 1..Len(products) :
       (products[i].pictureUrl = FirstImageUrl(products[i].barcode)
        /\ products[i].ingredients = "") =>
         products[i].name = "Unknown Product (from AI)"

C26_Witness ==
  \E c \in Clients :
    /\ Len(trace[c]) >= 4 /\ trace[c][1] = "submit" /\ trace[c][4] = "create:ok"
    /\ \E i \in ProductsOf(Target(c)) :
         /\ products[i].pictureUrl = FirstImageUrl(Target(c))
         /\ products[i].ingredients = ""
         /\ products[i].name = "Unknown Product"

\* C27: the payload built from an external-catalog hit takes, for the name,
\* the ingredients and the picture URL, the first non-empty field of its
\* preference list, and the default when all of them are empty: "Unknown
\* Product", empty ingredients, empty URL.
C27_NormalizationPreference ==
  productPayload # NoPayload =>
    LET p == offProduct IN
    /\ productPayload.barcode \in Barcodes
    /\ productPayload.name =
         IF p["product_name"] # "" THEN p["product_name"]
         ELSE IF p["product_name_en"] # "" THEN p["product_name_en"]
         ELSE IF p["name"] # "" THEN p["name"]
         ELSE "Unknown Product"
    /\ productPayload.ingredients =
         IF p["ingredients_text_with_allergens"] # ""
           THEN p["ingredients_text_with_allergens"]
         ELSE IF p["ingredients_text"] # "" THEN p["ingredients_text"]
         ELSE IF p["ingredients_text_en"] # "" THEN p["ingredients_text_en"]
         ELSE IF p["ingredients_text_debug"] # "" THEN p["ingredients_text_debug"]
         ELSE ""
    /\ productPayload.pictureUrl =
         IF p["image_front_url"] # "" THEN p["image_front_url"]
         ELSE IF p["image_url"] # "" THEN p["image_url"]
         ELSE IF p["image_small_url"] # "" THEN p["image_small_url"]
         ELSE ""

C27_Witness ==
  /\ offProduct["product_name"] = "" /\ offProduct["product_name_en"] # ""
  /\ offProduct["name"] # ""
  /\ offProduct["ingredients_text_with_allergens"] # ""
  /\ offProduct["ingredients_text"] # ""
  /\ offProduct["image_front_url"] = "" /\ offProduct["image_url"] = ""
  /\ offProduct["image_small_url"] = ""
  /\ productPayload = [barcode |-> "0002", name |-> "product_name_en",
                       ingredients |-> "ingredients_text_with_allergens",
                       pictureUrl |-> ""]

\* C28: a product made from the external catalog's text of ingredients holds
\* them as a sequence, and the staleness check is still run on such a product
\* once its status is stale.
C28_BlobNormalizedAndClassified ==
  /\ \A i \in 1..Len(products) :
       products[i].pictureUrl = OffPayload(products[i].barcode,
                                           OffProduct(products[i].barcode)).pictureUrl
         => products[i].ingredientsForm = "array"
  /\ \A c \in Clients :
       LET cur == Cur(c) IN
       (Succeeded(c) /\ Has(cur, "age:old")) =>
         (Has(cur, "trigger") /\ ~Has(cur, "skip"))

C28_Witness ==
  \E c \in Clients :
    /\ pc[c] = "idle" /\ outcome[c] = "FoundLocal"
    /\ Has(Cur(c), "age:old") /\ LastEvent(trace[c]) = "skip"
    /\ \E i \in ProductsOf(Target(c)) :
         /\ products[i].ingredients = "oats, honey, wheat flour"
         /\ products[i].ingredientsForm = "array"
         /\ ~IsRecent(products[i], now)

\* C29: the notification of a changed status is shown exactly when a
\* staleness check ends with its update committed: once, right after the
\* update was answered, for a stale product whose classifier answer differed;
\* never when the check found the status fresh or unchanged, when the
\* classifier failed, or when the update failed.
C29_NotifyOnlyWhenUpdated ==
  \A c \in Clients :
    LET tr == trace[c]
        n == Count(tr, {"notify:changed"})
    IN
    /\ n <= 1
    /\ n = Count(tr, {"update:ok"})
    /\ n = 1 =>
         /\ tr[Len(tr)] = "notify:changed" /\ tr[Len(tr) - 1] = "update:ok"
         /\ Has(tr, "age:old") /\ Has(tr, "classify:ok")
    /\ Count(tr, {"fresh", "unchanged", "skip", "classify:err", "update:err",
                  "update:404", "update:noauth"}) > 0 => n = 0
    /\ Checking(c) => n = 0

C29_Witness ==
  \E c \in Clients :
    /\ pc[c] = "idle"
    /\ LastEvent(trace[c]) = "notify:changed"
    /\ \E i \in ProductsOf(Target(c)) :
         /\ products[i].status.status = "contains-gluten"
         /\ products[i].createdAt = now

\* C30: no step removes a product from the catalog, and no step, the status
\* update of a staleness check included, changes the barcode, the name, the
\* ingredients or the picture URL of a product that is stored.
C30_OnlyStatusChanges ==
  [][/\ Len(products') >= Len(products)
     /\ \A i \in 1..Len(products) :
          /\ products'[i].barcode = products[i].barcode
          /\ products'[i].name = products[i].name
          /\ products'[i].ingredients = products[i].ingredients
          /\ products'[i].ingredientsForm = products[i].ingredientsForm
          /\ products'[i].pictureUrl = products[i].pictureUrl]_vars

C30_Witness ==
  \E i \in 1..Len(products) :
    /\ products[i].status = [status |-> "contains-gluten", explanation |-> "because"]
    /\ products[i].createdAt = now
    /\ products[i].barcode = "0001" /\ products[i].name = "Granola Bar"
    /\ products[i].ingredients = "oats, honey, wheat flour"
    /\ products[i].pictureUrl = "img/0001"
    /\ BagCardinality(scans) = 2

\* C31: whatever files are added, the images collected in the modal are never
\* more than 8: a step that adds files keeps the first 8; and a submission is
\* accepted (goes on to the extractor) only with at least 4 of them.
C31_ImageCountBounds ==
  [][\A c \in Clients :
       /\ uploadedImages[c] <= MaxImages /\ uploadedImages'[c] <= MaxImages
       /\ uploadedImages'[c] > uploadedImages[c] =>
            \E n \in AddSizes : uploadedImages'[c] = Min(uploadedImages[c] + n, MaxImages)
       /\ (pc[c] = "idle" /\ pc'[c] = "extracting") =>
            (uploadedImages[c] >= MinImages /\ uploadedImages'[c] = uploadedImages[c])]_vars

C31_Witness ==
  \E c \in Clients :
    /\ pc[c] = "extracting"
    /\ uploadedImages[c] = MaxImages
    /\ trace[c] = <<"submit">>

\* C32: the fallback sends its create only after the external lookup
\* answered with a product and the payload was built: in a resolution, a
\* create is in flight or was sent only right after a hit and with a token,
\* a lookup that found nothing or failed is followed by no create, and no
\* answer of the lookup leads to a create without a token.
C32_CreateOnlyAfterHit ==
  /\ \A c \in Clients :
       LET cur == Cur(c)
           hit == FirstIdx(cur, {"off:hit"})
           created == FirstIdx(cur, CreateEvents)
       IN
       /\ pc[c] = "creating" => (token[c] /\ cur[Len(cur)] = "off:hit")
       /\ created > 0 => (token[c] /\ hit > 0 /\ created = hit + 1)
       /\ Count(cur, OffNoEntry \cup OffUpstreamErrors) > 0 =>
            (created = 0 /\ pc[c] # "creating")
  /\ \A b \in Barcodes, net \in NetOutcomes :
       \A reply \in OffReplies(b) : OffClassify(net, reply, FALSE) # "FOUND"

C32_Witness ==
  \E c \in Clients :
    /\ pc[c] = "recording" /\ token[c]
    /\ Cur(c) = <<"resolve:absent", "0001", "scan:404", "off:hit", "create:ok">>
    /\ \E i \in ProductsOf("0001") :
         products[i].name = OffPayload("0001", OffProduct("0001")).name

\* C33: when every call returns, the spinner is cleared in the end: whenever
\* a tab shows it, a later state of the tab shows it no more.
C33_SpinnerCleared ==
  \A c \in Clients : isScanning[c] ~> ~isScanning[c]

C33_Witness ==
  \E c \in Clients :
    /\ ~isScanning[c] /\ pc[c] = "idle"
    /\ trace[c] = <<"submit", "extract:ok", "upload:ok", "create:ok",
                    "resolve:local", "0002", "scan:err">>

\* The events that stand for a request the backend was sent to write by.
BackendWriteEvents ==
  { k \o s : k \in {"scan", "create", "update"}, s \in {":ok", ":404", ":conflict", ":err"} }

\* C34: a handler that reads no token issues no backend write: no step of a
\* tab without a token sends a scan, a create (on either path) or a status
\* update, none changes the catalog or the scans, and where the handler needed
\* the token the step ends in the error instead.
C34_NoWriteWithoutToken ==
  [][\A c \in Clients :
       ~token[c] =>
         /\ pc'[c] \notin {"creating", "updating", "savingAI"}
         /\ trace'[c] # trace[c] =>
              /\ products' = products /\ scans' = scans
              /\ \A i \in 1..Len(trace'[c]) :
                   trace'[c][i] \in BackendWriteEvents =>
                     (i <= Len(trace[c]) /\ trace[c][i] = trace'[c][i])
              /\ pc[c] = "recording" =>
                   (LastEvent(trace'[c]) = "scan:noauth" /\ outcome'[c] = "Failed")
              /\ (pc[c] = "offLookup" /\ LastEvent(trace'[c]) = "off:hit") =>
                   (outcome'[c] = "Failed" /\ pc'[c] = "idle")
              /\ pc[c] = "uploading" =>
                   LastEvent(trace'[c]) \in {"upload:err", "submit:noauth"}
              /\ (pc[c] = "classifying" /\ LastEvent(trace'[c]) \notin
                    {"classify:err", "classify:ok", "reply:nolabel", "unchanged"}) =>
                   LastEvent(trace'[c]) = "update:noauth"
    ]_vars

C34_Witness ==
  /\ products = <<>> /\ scans = EmptyBag
  /\ \E c, d \in Clients :
       /\ ~token[c] /\ pc[c] = "idle" /\ outcome[c] = "Failed"
       /\ Cur(c) = <<"resolve:absent", "0001", "scan:404", "off:hit">>
       /\ ~token[d] /\ pc[d] = "idle" /\ LastEvent(trace[d]) = "submit:noauth"

\* C37: apiFetch always returns, with exactly one of data and error: a network
\* exception gives an error with status 0, a response that is not OK an error
\* with the status of the response, a successful response the data with its
\* status.
C37_ApiFetchTotal ==
  apiResponse # NoApiResponse =>
    /\ apiResponse.hasError # apiResponse.hasData
    /\ fetched.net = "network" =>
         (apiResponse.hasError /\ apiResponse.status = 0)
    /\ (fetched.net # "network" /\ ~ResponseOk(fetched.http)) =>
         (apiResponse.hasError /\ apiResponse.status = fetched.http)
    /\ (fetched.net # "network" /\ ResponseOk(fetched.http)) =>
         (apiResponse.hasData /\ apiResponse.status = fetched.http)

C37_Witness ==
  /\ fetched = [net |-> "badjson", http |-> 204]
  /\ apiResponse = [hasError |-> TRUE, hasData |-> FALSE, status |-> 0]


\* C38: uploadFileToS3 sends no PutObject when a setting of S3 is missing or
\* the file is no JPEG, PNG, GIF or WEBP image or is larger than 5 MB; every
\* failure is returned as an error without a file URL, and a file URL is
\* returned only after the PutObject succeeded.
C38_NoPutWhenInvalid ==
  s3Response # NoS3Response =>
    LET incomplete == \E k \in DOMAIN s3Env : ~s3Env[k]
        badFile == \/ s3Call.file.type \notin
                        {"image/jpeg", "image/png", "image/gif", "image/webp"}
                   \/ s3Call.file.size > 5 * 1024 * 1024
        failure == incomplete \/ badFile \/ s3Call.put # "ok"
    IN /\ (incomplete \/ badFile) => ~s3Response.putObject
       /\ failure => (s3Response.error # "" /\ s3Response.fileUrl = "")
       /\ s3Response.fileUrl # "" =>
            (s3Response.putObject /\ s3Call.put = "ok" /\ s3Response.error = "")
       /\ ~failure => s3Response.fileUrl # ""

C38_Witness ==
  /\ s3Env = CompleteS3Env
  /\ s3Call = [file |-> [type |-> "image/png", size |-> MaxFileSize + 1], put |-> "ok"]
  /\ s3Response = [putObject |-> FALSE, error |-> "File is too large. Maximum size is 5MB.",
                   fileUrl |-> "", status |-> 400]

\* C35: an image of ImageUpload is 'success', and its URL handed to
\* onImagesChange, only when the upload to the object store succeeded; an
\* upload that ended in an error response leaves the image 'error', with its
\* file kept for the retry.
C35_SuccessOnlyWhenStored ==
  /\ \A i \in 1..Len(uploadableImages) :
       LET img == uploadableImages[i] IN
       /\ img.status = "success" => (img.s3Url.putObject /\ img.s3Url.fileUrl # "")
       /\ (img.s3Url # NoS3Response /\ img.s3Url.error # "") =>
            (img.status = "error" /\ img.file # NoFile)
  /\ \A i \in 1..Len(successfulS3Urls) :
       successfulS3Urls[i].putObject /\ successfulS3Urls[i].fileUrl # ""

C35_Witness ==
  /\ s3Env = CompleteS3Env
  /\ Len(uploadableImages) = 1
  /\ uploadableImages[1].status = "success"
  /\ uploadableImages[1].file = NoFile
  /\ uploadableImages[1].s3Url = uploadFileToS3(s3Env, [type |-> "image/png", size |-> 1024],
                                                "http403")
  /\ successfulS3Urls = <<uploadableImages[1].s3Url>>
  /\ ~ENABLED retryUpload(1)

\* C36: a login or a registration that failed leaves no credentials: as long
\* as the attempt that returned last is a failed one, token and user are null
\* in the state and absent from localStorage, whatever was there before.
C36_FailedAttemptClears ==
  lastAttempt.failed =>
    /\ authState.token = "" /\ authState.user = ""
    /\ localStorage.authToken = "" /\ localStorage.user = ""

C36_Witness ==
  /\ lastAttempt = [kind |-> "login", failed |-> TRUE]
  /\ authPending = [login |-> FALSE, register |-> TRUE]
  /\ authState = NoCredentials /\ localStorage = NothingStored
====
